---------------------------- MODULE Spec2Model ----------------------------
(***************************************************************************)
(* A model of the amqp-proto codec: the primitive and composite decoders   *)
(* of src/src/frame/base.rs, the method and property catalog, the frame    *)
(* decoder and the incremental FrameCodec of src/src/frame/frame_codec.rs. *)
(* Buffers are sequences of bytes (0..255).  A decode result is a record   *)
(* whose kind is "Ok" (with the remaining buffer and the value) or one of  *)
(* the three FrameDecodeErr variants.                                      *)
(***************************************************************************)
EXTENDS Integers, Sequences, FiniteSets, TLC

VARIABLES
    src,              \* FrameCodec's caller buffer (BytesMut)
    header_received,  \* FrameCodec.header_received
    wire,             \* bytes of the peer's stream that have not arrived yet
    op,               \* the last step: "init", "feed" or "decode"
    ret,              \* what the last decode call returned: "Some", "None", "Err"
    item,             \* the item of the last Ok(Some(item))
    pre,              \* the buffer and the flag as the last decode call found them
    emitted,          \* the items emitted so far, in order
    fn,               \* the pure function under test
    arg,              \* its input
    res               \* its result

vars == <<src, header_received, wire, op, ret, item, pre, emitted, fn, arg, res>>

-----------------------------------------------------------------------------
(* Results and errors (src/src/error/frame.rs)                             *)

Ok(rest, val) == [kind |-> "Ok", rest |-> rest, val |-> val]

\* FrameDecodeErr::Incomplete
Incomplete == [kind |-> "Incomplete", cause |-> "Incomplete"]

\* FrameDecodeErr::SyntaxError(_)
SyntaxError == [kind |-> "SyntaxError", cause |-> "SyntaxError"]

\* FrameDecodeErr::DecodeError(format!("... -> {}", e)): the message chain keeps
\* the innermost cause, which the model records in "cause".
DecodeError(e) == [kind |-> "DecodeError", cause |-> e.cause]

\* FrameDecodeErr::DecodeError(format!(...)) raised by a decoder itself
DecodeErrorHere == [kind |-> "DecodeError", cause |-> "DecodeError"]

IsOk(r) == r.kind = "Ok"

\* a fatal error: an error that is not Incomplete
IsFatal(r) == r.kind \in {"SyntaxError", "DecodeError"}

-----------------------------------------------------------------------------
(* Primitive codec                                                         *)

Byte == 0..255

Drop(s, n) == SubSeq(s, n + 1, Len(s))

Take(s, n) == SubSeq(s, 1, n)

RECURSIVE BigEndian(_)
\* the unsigned integer a byte sequence holds, most significant byte first
BigEndian(s) ==
    IF Len(s) = 0 THEN 0
    ELSE BigEndian(Take(s, Len(s) - 1)) * 256 + s[Len(s)]

RECURSIVE ToBigEndian(_, _)
\* put_u16 / put_u32 / put_u64: the n big-endian bytes of v
ToBigEndian(v, n) ==
    IF n = 0 THEN <<>>
    ELSE Append(ToBigEndian(v \div 256, n - 1), v % 256)

\* nom's streaming be_uN: Incomplete when fewer than n bytes are present
be_uint(buffer, n) ==
    IF Len(buffer) < n THEN Incomplete
    ELSE Ok(Drop(buffer, n), BigEndian(Take(buffer, n)))

u8_decode(buffer) == be_uint(buffer, 1)

u16_decode(buffer) == be_uint(buffer, 2)

u32_decode(buffer) == be_uint(buffer, 4)

u64_decode(buffer) == be_uint(buffer, 8)

\* nom's streaming take(count): Incomplete when the buffer is shorter than count
take_bytes(buffer, count) ==
    IF Len(buffer) < count THEN Incomplete
    ELSE Ok(Drop(buffer, count), Take(buffer, count))

-----------------------------------------------------------------------------
(* Protocol header                                                         *)

\* Panics.  Indexing an empty slice (bytes[0]) panics; the panic unwinds
\* through every caller instead of being returned as an Err.
Panic == [kind |-> "Panic", cause |-> "Panic"]

\* `Err(e) => return Err(FrameDecodeErr::DecodeError(format!(..., e)))`
Wrap(r) == IF r.kind = "Panic" THEN r ELSE DecodeError(r)

\* `Incomplete => return Err(Incomplete), _ => return Err(DecodeError(...))`
PassIncomplete(r) == IF r.kind \in {"Incomplete", "Panic"} THEN r ELSE DecodeError(r)

\* The match operators below bind the matched result once, as `match` does:
\* v is the value of r.

\* `match r { Ok(v) => <K>, Err(e) => return Err(DecodeError(format!(.., e))) }`
Try(r, K(_)) == CHOOSE x \in {IF IsOk(v) THEN K(v) ELSE Wrap(v) : v \in {r}} : TRUE

\* `match r { Ok(v) => <K>, Err(e) => match e { Incomplete => return
\* Err(Incomplete), _ => return Err(DecodeError(..)) } }`
TryPass(r, K(_)) == CHOOSE x \in {IF IsOk(v) THEN K(v) ELSE PassIncomplete(v) : v \in {r}} : TRUE

\* `match r { Ok(v) => <K>, Err(e) => return Err(e) }`
TryRaw(r, K(_)) == CHOOSE x \in {IF IsOk(v) THEN K(v) ELSE v : v \in {r}} : TRUE

\* `match r { Ok(v) => <K>, Err(e) => <E> }`
Either(r, K(_), E(_)) == CHOOSE x \in {IF IsOk(v) THEN K(v) ELSE E(v) : v \in {r}} : TRUE

AMQP == <<65, 77, 81, 80>>

PROTOCOL_HEADER_SIZE == 8

\* a header decoder that does not compare the literal
ProtocolHeader_decode_unchecked(buffer) ==
    Try(take_bytes(buffer, Len(AMQP)), LAMBDA p :
    Try(u8_decode(p.rest), LAMBDA a :
    Try(u8_decode(a.rest), LAMBDA b :
    Try(u8_decode(b.rest), LAMBDA c :
    Try(u8_decode(c.rest), LAMBDA d :
    Ok(d.rest, [protocol |-> p.val, major_id |-> a.val, minor_id |-> b.val,
                major_version |-> c.val, minor_version |-> d.val]))))))

ProtocolHeader_decode(buffer) ==
    Try(take_bytes(buffer, Len(AMQP)), LAMBDA p :
    IF p.val # AMQP THEN SyntaxError ELSE
    Try(u8_decode(p.rest), LAMBDA a :
    Try(u8_decode(a.rest), LAMBDA b :
    Try(u8_decode(b.rest), LAMBDA c :
    Try(u8_decode(c.rest), LAMBDA d :
    Ok(d.rest, [protocol |-> p.val, major_id |-> a.val, minor_id |-> b.val,
                major_version |-> c.val, minor_version |-> d.val]))))))

-----------------------------------------------------------------------------
(* String::from_utf8_lossy: every maximal invalid chunk becomes U+FFFD      *)

REPLACEMENT == <<239, 191, 189>>

At(s, i) == IF i <= Len(s) THEN s[i] ELSE 0

IsCont(b) == b \in 128..191

utf8_char_width(b) ==
    IF b < 128 THEN 1
    ELSE IF b \in 194..223 THEN 2
    ELSE IF b \in 224..239 THEN 3
    ELSE IF b \in 240..244 THEN 4
    ELSE 0

\* the second byte a 3- or 4-byte lead allows
SecondOk(b, c) ==
    \/ b = 224 /\ c \in 160..191
    \/ b \in 225..236 /\ c \in 128..191
    \/ b = 237 /\ c \in 128..159
    \/ b \in 238..239 /\ c \in 128..191
    \/ b = 240 /\ c \in 144..191
    \/ b \in 241..243 /\ c \in 128..191
    \/ b = 244 /\ c \in 128..143

\* the chunk at the head of a non-empty s: its length and whether it is valid
HeadChunk(s) ==
    IF utf8_char_width(s[1]) = 1 THEN [n |-> 1, valid |-> TRUE]
    ELSE IF utf8_char_width(s[1]) = 0 THEN [n |-> 1, valid |-> FALSE]
    ELSE IF utf8_char_width(s[1]) = 2 THEN
        IF IsCont(At(s, 2)) THEN [n |-> 2, valid |-> TRUE]
        ELSE [n |-> 1, valid |-> FALSE]
    ELSE IF ~SecondOk(s[1], At(s, 2)) THEN [n |-> 1, valid |-> FALSE]
    ELSE IF ~IsCont(At(s, 3)) THEN [n |-> 2, valid |-> FALSE]
    ELSE IF utf8_char_width(s[1]) = 3 THEN [n |-> 3, valid |-> TRUE]
    ELSE IF ~IsCont(At(s, 4)) THEN [n |-> 3, valid |-> FALSE]
    ELSE [n |-> 4, valid |-> TRUE]

\* one chunk of st.rest moves to st.out: a valid character as it is, an
\* invalid chunk as U+FFFD
LossyStep(st) ==
    CHOOSE x \in {IF Len(v.rest) = 0 THEN v
                  ELSE [out |-> v.out \o (IF HeadChunk(v.rest).valid
                                          THEN Take(v.rest, HeadChunk(v.rest).n)
                                          ELSE REPLACEMENT),
                        rest |-> Drop(v.rest, HeadChunk(v.rest).n)] : v \in {st}} : TRUE

\* sixteen chunks at a time, to keep the evaluation shallow on long strings
LossySteps4(st) == LossyStep(LossyStep(LossyStep(LossyStep(st))))

LossySteps16(st) == LossySteps4(LossySteps4(LossySteps4(LossySteps4(st))))

RECURSIVE LossyLoop(_)
LossyLoop(st) ==
    CHOOSE x \in {IF Len(v.rest) = 0 THEN v ELSE LossyLoop(LossySteps16(v)) : v \in {st}} : TRUE

from_utf8_lossy(s) == LossyLoop([out |-> <<>>, rest |-> s]).out

-----------------------------------------------------------------------------
(* ShortStr, LongStr, Decimal, FieldName.  A string value is the sequence   *)
(* of the bytes of its String.                                             *)

MAX_FIELD_NAME_LEN == 128

MAX_LONG_STR_LEN == 65536

U8_MAX == 255

ShortStr_with_bytes(bytes) ==
    IF Len(bytes) > U8_MAX THEN SyntaxError
    ELSE Ok(<<>>, from_utf8_lossy(bytes))

\* put_u8(self.0.len() as u8), then the bytes
ShortStr_encode(s) == <<Len(s) % 256>> \o s

ShortStr_decode(buffer) ==
    Try(u8_decode(buffer), LAMBDA l :
    Try(take_bytes(l.rest, l.val), LAMBDA d :
    Try(ShortStr_with_bytes(d.val), LAMBDA v :
    Ok(d.rest, v.val))))

LongStr_with_bytes(bytes) ==
    IF Len(bytes) > MAX_LONG_STR_LEN THEN SyntaxError
    ELSE Ok(<<>>, from_utf8_lossy(bytes))

\* put_u32(self.0.len() as u32), then the bytes (a length below 2^31 is kept by `as u32`)
LongStr_encode(s) == ToBigEndian(Len(s), 4) \o s

LongStr_decode(buffer) ==
    Try(u32_decode(buffer), LAMBDA l :
    Try(take_bytes(l.rest, l.val), LAMBDA d :
    Try(LongStr_with_bytes(d.val), LAMBDA v :
    Ok(d.rest, v.val))))

Decimal_encode(d) == <<d.scale>> \o ToBigEndian(d.value, 4)

Decimal_decode(buffer) ==
    Try(u8_decode(buffer), LAMBDA s :
    Try(u32_decode(s.rest), LAMBDA v :
    Ok(v.rest, [scale |-> s.val, value |-> v.val])))

\* '$' | '#' | 'a'..='z' | 'A'..='Z'
IsStartChar(b) == b \in {36, 35} \cup (97..122) \cup (65..90)

\* a name builder without the length test
FieldName_with_bytes_uncapped(bytes) ==
    IF Len(bytes) = 0 THEN Panic
    ELSE IF ~IsStartChar(bytes[1]) THEN SyntaxError
    ELSE Try(ShortStr_with_bytes(bytes), LAMBDA v : v)

FieldName_with_bytes(bytes) ==
    IF Len(bytes) = 0 THEN Panic
    ELSE IF ~IsStartChar(bytes[1]) THEN SyntaxError
    ELSE IF Len(bytes) > MAX_FIELD_NAME_LEN THEN SyntaxError
    ELSE Try(ShortStr_with_bytes(bytes), LAMBDA v : v)

FieldName_encode(n) == ShortStr_encode(n)

FieldName_decode(buffer) ==
    Try(u8_decode(buffer), LAMBDA l :
    Try(take_bytes(l.rest, l.val), LAMBDA d :
    Try(FieldName_with_bytes(d.val), LAMBDA v :
    Ok(d.rest, v.val))))

-----------------------------------------------------------------------------
(* FieldValue, FieldArray, FieldTable.  A FieldValue is <<kind, v>>; integers*)
(* are held as numbers, floats as their bit patterns, an array as the       *)
(* sequence of its values and a table (a HashMap) as the set of its         *)
(* <<name, value>> entries, one per name.                                   *)

FieldValueKinds ==
    {"Boolean", "I8", "U8", "I16", "U16", "I32", "U32", "I64", "U64", "F32", "F64",
     "Timestamp", "Decimal", "LongStr", "FieldArray", "FieldTable", "BytesArray", "Void"}

\* FieldValueKind::as_u8
as_u8(kind) ==
    CASE kind = "Boolean" -> 116      \* 't'
      [] kind = "I8" -> 98            \* 'b'
      [] kind = "U8" -> 66            \* 'B'
      [] kind = "I16" -> 115          \* 's'
      [] kind = "U16" -> 117          \* 'u'
      [] kind = "I32" -> 73           \* 'I'
      [] kind = "U32" -> 105          \* 'i'
      [] kind = "I64" -> 108          \* 'l'
      [] kind = "U64" -> 76           \* 'L'
      [] kind = "F32" -> 102          \* 'f'
      [] kind = "F64" -> 100          \* 'd'
      [] kind = "Timestamp" -> 84     \* 'T'
      [] kind = "Decimal" -> 68       \* 'D'
      [] kind = "LongStr" -> 83       \* 'S'
      [] kind = "FieldArray" -> 65    \* 'A'
      [] kind = "FieldTable" -> 70    \* 'F'
      [] kind = "BytesArray" -> 120   \* 'x'
      [] kind = "Void" -> 86          \* 'V'
      [] OTHER -> 255

\* impl From<u8> for FieldValueKind
FieldValueKind_from(tag) ==
    CASE tag = 116 -> "Boolean"
      [] tag = 98 -> "I8"
      [] tag = 66 -> "U8"
      [] tag = 115 -> "I16"
      [] tag = 117 -> "U16"
      [] tag = 73 -> "I32"
      [] tag = 105 -> "U32"
      [] tag = 108 -> "I64"
      [] tag = 76 -> "U64"
      [] tag = 102 -> "F32"
      [] tag = 100 -> "F64"
      [] tag = 84 -> "Timestamp"
      [] tag = 68 -> "Decimal"
      [] tag = 83 -> "LongStr"
      [] tag = 65 -> "FieldArray"
      [] tag = 70 -> "FieldTable"
      [] tag = 120 -> "BytesArray"
      [] tag = 86 -> "Void"
      [] OTHER -> "Unknown"

\* a value is the pair of its kind and its payload
FV(kind, v) == <<kind, v>>

KindOf(fv) == fv[1]

PayloadOf(fv) == fv[2]

\* the width in bytes of a fixed-width kind
WidthOf(kind) ==
    CASE kind \in {"I8", "U8"} -> 1
      [] kind \in {"I16", "U16"} -> 2
      [] kind \in {"I32", "U32", "F32"} -> 4
      [] kind \in {"I64", "U64", "F64", "Timestamp"} -> 8

IsSigned(kind) == kind \in {"I8", "I16", "I32", "I64"}

\* the one's complement of a byte sequence
Complement(bytes) == [i \in 1..Len(bytes) |-> 255 - bytes[i]]

\* be_iN / be_uN / be_fN on the payload of a fixed-width kind; a signed kind
\* reads the bytes as two's complement
Fixed_decode(kind, buffer) ==
    IF Len(buffer) < WidthOf(kind) THEN Incomplete
    ELSE IF IsSigned(kind) /\ buffer[1] >= 128
    THEN Ok(Drop(buffer, WidthOf(kind)),
            0 - BigEndian(Complement(Take(buffer, WidthOf(kind)))) - 1)
    ELSE Ok(Drop(buffer, WidthOf(kind)), BigEndian(Take(buffer, WidthOf(kind))))

\* put_iN / put_uN / put_fN
Fixed_encode(kind, v) ==
    IF v < 0 THEN Complement(ToBigEndian(0 - v - 1, WidthOf(kind)))
    ELSE ToBigEndian(v, WidthOf(kind))

\* every sequence that lists each element of the set S once
RECURSIVE Orders(_)
Orders(S) ==
    IF S = {} THEN {<<>>}
    ELSE UNION {{<<x>> \o o : o \in Orders(S \ {x})} : x \in S}

RECURSIVE FieldValue_encode(_), FieldArray_encode(_), FieldTable_encode(_),
          EncodeItems(_), EncodeEntries(_)

\* The bytes encode appends.  A HashMap iterates in an unspecified order, so
\* each encoder yields the set of the byte strings it may write.
FieldValue_encode(fv) ==
    LET tag == <<as_u8(KindOf(fv))>> IN
    CASE KindOf(fv) = "Boolean" -> {tag \o <<IF PayloadOf(fv) THEN 1 ELSE 0>>}
      [] KindOf(fv) = "Decimal" -> {tag \o Decimal_encode(PayloadOf(fv))}
      [] KindOf(fv) \in {"LongStr", "BytesArray"} -> {tag \o LongStr_encode(PayloadOf(fv))}
      [] KindOf(fv) = "FieldArray" -> {tag \o b : b \in FieldArray_encode(PayloadOf(fv))}
      [] KindOf(fv) = "FieldTable" -> {tag \o b : b \in FieldTable_encode(PayloadOf(fv))}
      [] KindOf(fv) = "Void" -> {tag}
      [] OTHER -> {tag \o Fixed_encode(KindOf(fv), PayloadOf(fv))}

\* the bodies a sequence of values may be written as
EncodeItems(arr) ==
    IF Len(arr) = 0 THEN {<<>>}
    ELSE {h \o t : h \in FieldValue_encode(Head(arr)), t \in EncodeItems(Tail(arr))}

\* reserve the 4-byte length, write the items, patch the length
FieldArray_encode(arr) ==
    {ToBigEndian(Len(body), 4) \o body : body \in EncodeItems(arr)}

\* the bodies a sequence of <<name, value>> entries may be written as
EncodeEntries(entries) ==
    IF Len(entries) = 0 THEN {<<>>}
    ELSE {FieldName_encode(Head(entries)[1]) \o h \o t :
            h \in FieldValue_encode(Head(entries)[2]), t \in EncodeEntries(Tail(entries))}

FieldTable_encode(table) ==
    {ToBigEndian(Len(body), 4) \o body :
        body \in UNION {EncodeEntries(o) : o \in Orders(table)}}

\* a length patch that writes at the front of the buffer
PatchLength_front(buffer, index) ==
    [i \in 1..Len(buffer) |->
        IF i <= 4 THEN ToBigEndian(Len(buffer) - index - 4, 4)[i] ELSE buffer[i]]

\* `let len = (buffer.len() - index - 4) as u32; for i in &len.to_be_bytes()
\* { buffer[index] = *i; index += 1; }`
PatchLength(buffer, index) ==
    [i \in 1..Len(buffer) |->
        IF i > index /\ i <= index + 4
        THEN ToBigEndian(Len(buffer) - index - 4, 4)[i - index]
        ELSE buffer[i]]

\* FieldArray::encode(&self, buffer) on a buffer that holds bytes already:
\* index = buffer.len(), put_u32(0), the items, the patch at index
FieldArray_encode_onto(buffer, arr) ==
    {PatchLength(buffer \o <<0, 0, 0, 0>> \o body, Len(buffer)) : body \in EncodeItems(arr)}

\* FieldTable::encode(&self, buffer) on a buffer that holds bytes already
FieldTable_encode_onto(buffer, table) ==
    {PatchLength(buffer \o <<0, 0, 0, 0>> \o body, Len(buffer)) :
        body \in UNION {EncodeEntries(o) : o \in Orders(table)}}

\* HashMap::insert: the entry of an equal name is replaced
Insert(table, name, value) == {e \in table : e[1] # name} \cup {<<name, value>>}

RECURSIVE FieldValue_decode(_), Value_decode(_, _), FieldArray_decode(_),
          FieldTable_decode(_), ArrayLoop(_, _), TableLoop(_, _),
          ArrayLoop_unsliced(_, _, _)

\* `Ok(v) => (buffer, FieldValue::X(v))`
Value(kind, r) == Try(r, LAMBDA x : Ok(x.rest, FV(kind, x.val)))

FieldValue_decode(buffer) ==
    Try(u8_decode(buffer), LAMBDA t : Value_decode(FieldValueKind_from(t.val), t.rest))

\* the `match FieldValueKind::from(tag)` of FieldValue::decode
Value_decode(kind, buffer) ==
    CASE kind = "Boolean" ->
            Try(u8_decode(buffer), LAMBDA r : Ok(r.rest, FV(kind, r.val # 0)))
      [] kind = "Decimal" -> Value(kind, Decimal_decode(buffer))
      [] kind \in {"LongStr", "BytesArray"} -> Value(kind, LongStr_decode(buffer))
      [] kind = "FieldArray" -> Value(kind, FieldArray_decode(buffer))
      [] kind = "FieldTable" -> Value(kind, FieldTable_decode(buffer))
      [] kind = "Void" -> Ok(buffer, FV(kind, 0))
      [] kind = "Unknown" -> DecodeErrorHere
      [] OTHER -> Value(kind, Fixed_decode(kind, buffer))

\* the loop of FieldArray::decode over the sliced bytes
ArrayLoop(tmp, arr) ==
    Try(FieldValue_decode(tmp), LAMBDA r :
    IF Len(r.rest) = 0 THEN Ok(<<>>, Append(arr, r.val))
    ELSE ArrayLoop(r.rest, Append(arr, r.val)))

\* an array decoder that reads its items from the outer buffer until the
\* declared length is used up, instead of from the slice
ArrayLoop_unsliced(tmp, left, arr) ==
    Try(FieldValue_decode(tmp), LAMBDA r :
    IF Len(tmp) - Len(r.rest) >= left THEN Ok(r.rest, Append(arr, r.val))
    ELSE ArrayLoop_unsliced(r.rest, left - (Len(tmp) - Len(r.rest)), Append(arr, r.val)))

FieldArray_decode_unsliced(buffer) ==
    Try(u32_decode(buffer), LAMBDA l :
    Try(take_bytes(l.rest, l.val), LAMBDA d :
    TryRaw(ArrayLoop_unsliced(l.rest, l.val, <<>>), LAMBDA a :
    Ok(a.rest, a.val))))

FieldArray_decode(buffer) ==
    Try(u32_decode(buffer), LAMBDA l :
    Try(take_bytes(l.rest, l.val), LAMBDA d :
    TryRaw(ArrayLoop(d.val, <<>>), LAMBDA a :
    Ok(d.rest, a.val))))

\* the loop of FieldTable::decode over the sliced bytes
TableLoop(tmp, table) ==
    Try(FieldName_decode(tmp), LAMBDA n :
    Try(FieldValue_decode(n.rest), LAMBDA r :
    IF Len(r.rest) = 0 THEN Ok(<<>>, Insert(table, n.val, r.val))
    ELSE TableLoop(r.rest, Insert(table, n.val, r.val))))

FieldTable_decode(buffer) ==
    Try(u32_decode(buffer), LAMBDA l :
    Try(take_bytes(l.rest, l.val), LAMBDA d :
    TryRaw(TableLoop(d.val, {}), LAMBDA t :
    Ok(d.rest, t.val))))

-----------------------------------------------------------------------------
(* Class and method catalog (src/src/class/class.rs, src/src/method/*.rs)   *)

\* impl From<u16> for Class
Class_from(class_id) ==
    CASE class_id = 10 -> "Connection"
      [] class_id = 20 -> "Channel"
      [] class_id = 30 -> "Access"
      [] class_id = 40 -> "Exchange"
      [] class_id = 50 -> "Queue"
      [] class_id = 60 -> "Basic"
      [] class_id = 85 -> "Confirm"
      [] class_id = 90 -> "Tx"
      [] OTHER -> "Unknown"

\* Class::class_id
class_id_of(class) ==
    CASE class = "Connection" -> 10
      [] class = "Channel" -> 20
      [] class = "Access" -> 30
      [] class = "Exchange" -> 40
      [] class = "Queue" -> 50
      [] class = "Basic" -> 60
      [] class = "Confirm" -> 85
      [] class = "Tx" -> 90
      [] OTHER -> 65535

\* impl From<u16> for ConnectionMethod, ChannelMethod, ...: the <<id, method>>
\* pairs each class's `from` matches
FromTable(class) ==
    CASE class = "Connection" ->
            {<<10, "Start">>, <<11, "StartOk">>, <<20, "Secure">>, <<21, "SecureOk">>,
             <<30, "Tune">>, <<31, "TuneOk">>, <<40, "Open">>, <<41, "OpenOk">>,
             <<50, "Close">>, <<51, "CloseOk">>}
      [] class = "Channel" ->
            {<<10, "Open">>, <<11, "OpenOk">>, <<20, "Flow">>, <<21, "FlowOk">>,
             <<40, "Close">>, <<41, "CloseOk">>}
      [] class = "Access" -> {<<10, "Request">>, <<11, "RequestOk">>}
      [] class = "Exchange" ->
            {<<10, "Declare">>, <<11, "DeclareOk">>, <<20, "Delete">>, <<21, "DeleteOk">>,
             <<30, "Bind">>, <<31, "BindOk">>, <<40, "Unbind">>, <<51, "UnbindOk">>}
      [] class = "Queue" ->
            {<<10, "Declare">>, <<11, "DeclareOk">>, <<20, "Bind">>, <<21, "BindOk">>,
             <<50, "Unbind">>, <<51, "UnbindOk">>, <<30, "Purge">>, <<31, "PurgeOk">>,
             <<40, "Delete">>, <<41, "DeleteOk">>}
      [] class = "Basic" ->
            {<<10, "Qos">>, <<11, "QosOk">>, <<20, "Consume">>, <<21, "ConsumeOk">>,
             <<30, "Cancel">>, <<31, "CancelOk">>, <<40, "Publish">>, <<50, "Return">>,
             <<60, "Deliver">>, <<70, "Get">>, <<71, "GetOk">>, <<72, "GetEmpty">>,
             <<80, "Ack">>, <<90, "Reject">>, <<100, "RecoverAsync">>, <<110, "Recover">>,
             <<111, "RecoverOk">>}
      [] class = "Confirm" -> {<<10, "Select">>, <<11, "SelectOk">>}
      [] class = "Tx" ->
            {<<10, "Select">>, <<11, "SelectOk">>, <<20, "Commit">>, <<21, "CommitOk">>,
             <<30, "Rollback">>, <<31, "RollbackOk">>}
      [] OTHER -> {}

\* a lookup that takes Exchange 41 for UnbindOk
Method_from_lenient(class, method_id) ==
    IF class = "Exchange" /\ method_id = 41 THEN "UnbindOk"
    ELSE IF \E e \in FromTable(class) : e[1] = method_id
    THEN (CHOOSE e \in FromTable(class) : e[1] = method_id)[2]
    ELSE "Unknown"

\* XMethod::from(method_id)
Method_from(class, method_id) ==
    IF \E e \in FromTable(class) : e[1] = method_id
    THEN (CHOOSE e \in FromTable(class) : e[1] = method_id)[2]
    ELSE "Unknown"

get_method_type(class, method_id) ==
    IF class = "Unknown" THEN SyntaxError
    ELSE IF Method_from(class, method_id) = "Unknown" THEN SyntaxError
    ELSE Ok(<<>>, [class |-> class, name |-> Method_from(class, method_id)])

\* impl MethodId for ConnectionMethod, ChannelMethod, ...: the variants of each
\* class's enum with the id method_id() returns
MethodIds(class) ==
    CASE class = "Connection" ->
            {<<"Start", 10>>, <<"StartOk", 11>>, <<"Secure", 20>>, <<"SecureOk", 21>>,
             <<"Tune", 30>>, <<"TuneOk", 31>>, <<"Open", 40>>, <<"OpenOk", 41>>, <<"Close",
             50>>, <<"CloseOk", 51>>}
      [] class = "Channel" ->
            {<<"Open", 10>>, <<"OpenOk", 11>>, <<"Flow", 20>>, <<"FlowOk", 21>>, <<"Close",
             40>>, <<"CloseOk", 41>>}
      [] class = "Access" ->
            {<<"Request", 10>>, <<"RequestOk", 11>>}
      [] class = "Exchange" ->
            {<<"Declare", 10>>, <<"DeclareOk", 11>>, <<"Delete", 20>>, <<"DeleteOk", 21>>,
             <<"Bind", 30>>, <<"BindOk", 31>>, <<"Unbind", 40>>, <<"UnbindOk", 51>>}
      [] class = "Queue" ->
            {<<"Declare", 10>>, <<"DeclareOk", 11>>, <<"Bind", 20>>, <<"BindOk", 21>>,
             <<"Unbind", 50>>, <<"UnbindOk", 51>>, <<"Purge", 30>>, <<"PurgeOk", 31>>,
             <<"Delete", 40>>, <<"DeleteOk", 41>>}
      [] class = "Basic" ->
            {<<"Qos", 10>>, <<"QosOk", 11>>, <<"Consume", 20>>, <<"ConsumeOk", 21>>,
             <<"Cancel", 30>>, <<"CancelOk", 31>>, <<"Publish", 40>>, <<"Return", 50>>,
             <<"Deliver", 60>>, <<"Get", 70>>, <<"GetOk", 71>>, <<"GetEmpty", 72>>, <<"Ack",
             80>>, <<"Reject", 90>>, <<"RecoverAsync", 100>>, <<"Recover", 110>>,
             <<"RecoverOk", 111>>, <<"Nack", 120>>}
      [] class = "Confirm" ->
            {<<"Select", 10>>, <<"SelectOk", 11>>}
      [] class = "Tx" ->
            {<<"Select", 10>>, <<"SelectOk", 11>>, <<"Commit", 20>>, <<"CommitOk", 21>>,
             <<"Rollback", 30>>, <<"RollbackOk", 31>>}
      [] OTHER -> {}

\* Method::method_id
method_id_of(method) ==
    IF \E e \in MethodIds(method.class) : e[1] = method.name
    THEN (CHOOSE e \in MethodIds(method.class) : e[1] = method.name)[2]
    ELSE 65535

-----------------------------------------------------------------------------
(* Method arguments (src/src/frame/method/*.rs).  Every argument decoder    *)
(* reads its fields in wire order and wraps the error of a field in a       *)
(* DecodeError; a decoded argument record is [name, fields].                *)

\* booleans read one bit too high
Bits_shifted(flags, n) == [i \in 1..n |-> (flags \div 2 ^ i) % 2 = 1]

\* the booleans a flags byte holds: the i-th is `flags & (1 << (i - 1)) != 0`
Bits(flags, n) == [i \in 1..n |-> (flags \div 2 ^ (i - 1)) % 2 = 1]

RECURSIVE Pack(_)
\* `flag |= if self.x { 1 << i } else { 0 }` for each boolean in turn
Pack(bits) ==
    IF Len(bits) = 0 THEN 0 ELSE (IF Head(bits) THEN 1 ELSE 0) + 2 * Pack(Tail(bits))

\* the number of booleans a "bitsN" field holds
BitCount(type) ==
    CASE type = "bits1" -> 1
      [] type = "bits2" -> 2
      [] type = "bits3" -> 3
      [] type = "bits4" -> 4
      [] type = "bits5" -> 5
      [] OTHER -> 0

\* the fields each method's decode reads, in order ("bitsN" is the u8 that
\* packs the method's N booleans)
ArgLayout(name) ==
    CASE name = "ConnectionStart" -> <<"u8", "u8", "FieldTable", "LongStr", "LongStr">>
      [] name = "ConnectionStartOk" -> <<"FieldTable", "ShortStr", "LongStr", "ShortStr">>
      [] name = "ConnectionSecure" -> <<"LongStr">>
      [] name = "ConnectionSecureOk" -> <<"LongStr">>
      [] name = "ConnectionTune" -> <<"u16", "u32", "u16">>
      [] name = "ConnectionTuneOk" -> <<"u16", "u32", "u16">>
      [] name = "ConnectionOpen" -> <<"ShortStr", "ShortStr", "bits1">>
      [] name = "ConnectionOpenOk" -> <<"ShortStr">>
      [] name = "ConnectionClose" -> <<"u16", "ShortStr", "u16", "u16">>
      [] name = "ChannelOpen" -> <<"ShortStr">>
      [] name = "ChannelOpenOk" -> <<"LongStr">>
      [] name = "ChannelFlow" -> <<"bits1">>
      [] name = "ChannelFlowOk" -> <<"bits1">>
      [] name = "ChannelClose" -> <<"u16", "ShortStr", "u16", "u16">>
      [] name = "AccessRequest" -> <<"ShortStr", "u8">>
      [] name = "AccessRequestOk" -> <<"u16">>
      [] name = "ExchangeDeclare" -> <<"u16", "ShortStr", "ShortStr", "bits5", "FieldTable">>
      [] name = "ExchangeDelete" -> <<"u16", "ShortStr", "bits2">>
      [] name = "ExchangeBind" ->
            <<"u16", "ShortStr", "ShortStr", "ShortStr", "bits1", "FieldTable">>
      [] name = "ExchangeUnbind" ->
            <<"u16", "ShortStr", "ShortStr", "ShortStr", "bits1", "FieldTable">>
      [] name = "QueueDeclare" -> <<"u16", "ShortStr", "bits5", "FieldTable">>
      [] name = "QueueDeclareOk" -> <<"ShortStr", "u32", "u32">>
      [] name = "QueueBind" ->
            <<"u16", "ShortStr", "ShortStr", "ShortStr", "bits1", "FieldTable">>
      [] name = "QueuePurge" -> <<"u16", "ShortStr", "bits1">>
      [] name = "QueuePurgeOk" -> <<"u32">>
      [] name = "QueueDelete" -> <<"u16", "ShortStr", "bits3">>
      [] name = "QueueDeleteOk" -> <<"u32">>
      [] name = "QueueUnbind" -> <<"u16", "ShortStr", "ShortStr", "ShortStr", "FieldTable">>
      [] name = "BasicQos" -> <<"u32", "u16", "bits1">>
      [] name = "BasicConsume" -> <<"u16", "ShortStr", "ShortStr", "bits4", "FieldTable">>
      [] name = "BasicConsumeOk" -> <<"ShortStr">>
      [] name = "BasicCancel" -> <<"ShortStr", "bits1">>
      [] name = "BasicCancelOk" -> <<"ShortStr">>
      [] name = "BasicPublish" -> <<"u16", "ShortStr", "ShortStr", "bits2">>
      [] name = "BasicReturn" -> <<"u16", "ShortStr", "ShortStr", "ShortStr">>
      [] name = "BasicDeliver" -> <<"ShortStr", "u64", "bits1", "ShortStr", "ShortStr">>
      [] name = "BasicGet" -> <<"u16", "ShortStr", "bits1">>
      [] name = "BasicGetOk" -> <<"u64", "bits1", "ShortStr", "ShortStr", "u32">>
      [] name = "BasicGetEmpty" -> <<"ShortStr">>
      [] name = "BasicAck" -> <<"u64", "bits1">>
      [] name = "BasicReject" -> <<"u64", "bits1">>
      [] name = "BasicRecoverAsync" -> <<"bits1">>
      [] name = "BasicRecover" -> <<"bits1">>
      [] name = "BasicNack" -> <<"u64", "bits2">>
      [] name = "ConfirmSelect" -> <<"bits1">>
      [] OTHER -> <<>>   \* the methods with an empty argument body

\* T::decode(buffer) of one field
Field_decode(type, buffer) ==
    CASE type = "u8" -> u8_decode(buffer)
      [] BitCount(type) > 0 ->
            TryRaw(u8_decode(buffer), LAMBDA r : Ok(r.rest, Bits(r.val, BitCount(type))))
      [] type = "u16" -> u16_decode(buffer)
      [] type = "u32" -> u32_decode(buffer)
      [] type = "u64" -> u64_decode(buffer)
      [] type = "ShortStr" -> ShortStr_decode(buffer)
      [] type = "LongStr" -> LongStr_decode(buffer)
      [] type = "FieldTable" -> FieldTable_decode(buffer)

RECURSIVE Fields_decode(_, _, _)
\* the chain of `match T::decode(buffer) { Ok(ret) => ret, Err(e) => return
\* Err(DecodeError(..)) }` of an argument decoder
Fields_decode(layout, buffer, acc) ==
    IF Len(layout) = 0 THEN Ok(buffer, acc)
    ELSE Try(Field_decode(Head(layout), buffer), LAMBDA r :
         Fields_decode(Tail(layout), r.rest, Append(acc, r.val)))

\* ConnectionClose::decode and ChannelClose::decode: the class and the method
\* that caused the close must be known ones
Close_decode(name, buffer) ==
    TryRaw(Fields_decode(ArgLayout(name), buffer, <<>>), LAMBDA f :
    IF Class_from(f.val[3]) = "Unknown" THEN SyntaxError ELSE
    Try(get_method_type(Class_from(f.val[3]), f.val[4]), LAMBDA m :
    Ok(f.rest, [name |-> name,
                fields |-> <<f.val[1], f.val[2], Class_from(f.val[3]), m.val>>])))

\* AccessRequest::decode: the filler byte is read, the remainder returned is
\* the one before it, and the five booleans are set to false
AccessRequest_decode(buffer) ==
    Try(ShortStr_decode(buffer), LAMBDA realm :
    Try(u8_decode(realm.rest), LAMBDA filler :
    Ok(realm.rest, [name |-> "AccessRequest",
                    fields |-> <<realm.val, FALSE, FALSE, FALSE, FALSE, FALSE>>])))

\* AccessRequestOk::decode: the remainder returned is the whole input
AccessRequestOk_decode(buffer) ==
    Try(u16_decode(buffer), LAMBDA ticket :
    Ok(buffer, [name |-> "AccessRequestOk", fields |-> <<ticket.val>>]))

\* a dispatch that takes an empty argument body for a method without arguments
Arguments_decode_defaulting(name, buffer) ==
    IF Len(buffer) = 0 THEN Ok(buffer, [name |-> name, fields |-> <<>>])
    ELSE CASE name \in {"ConnectionClose", "ChannelClose"} -> Close_decode(name, buffer)
           [] name = "AccessRequest" -> AccessRequest_decode(buffer)
           [] name = "AccessRequestOk" -> AccessRequestOk_decode(buffer)
           [] OTHER ->
                TryRaw(Fields_decode(ArgLayout(name), buffer, <<>>), LAMBDA f :
                Ok(f.rest, [name |-> name, fields |-> f.val]))

\* the `match method` dispatch of MethodPayload::decode
Arguments_decode(name, buffer) ==
    CASE name \in {"ConnectionClose", "ChannelClose"} -> Close_decode(name, buffer)
      [] name = "AccessRequest" -> AccessRequest_decode(buffer)
      [] name = "AccessRequestOk" -> AccessRequestOk_decode(buffer)
      [] OTHER ->
            TryRaw(Fields_decode(ArgLayout(name), buffer, <<>>), LAMBDA f :
            Ok(f.rest, [name |-> name, fields |-> f.val]))

\* the bytes the encode of one field may append
Field_encode(type, v) ==
    CASE type = "u8" -> {<<v>>}
      [] BitCount(type) > 0 -> {<<Pack(v)>>}
      [] type = "u16" -> {ToBigEndian(v, 2)}
      [] type = "u32" -> {ToBigEndian(v, 4)}
      [] type = "u64" -> {ToBigEndian(v, 8)}
      [] type = "ShortStr" -> {ShortStr_encode(v)}
      [] type = "LongStr" -> {LongStr_encode(v)}
      [] type = "FieldTable" -> FieldTable_encode(v)

RECURSIVE Fields_encode(_, _)
\* the fields of an argument struct written in wire order
Fields_encode(layout, fields) ==
    IF Len(layout) = 0 THEN {<<>>}
    ELSE {h \o t : h \in Field_encode(Head(layout), Head(fields)),
                   t \in Fields_encode(Tail(layout), Tail(fields))}

\* impl Encode for Arguments: the encode of the variant.  A Close writes the
\* ids of its class and method; AccessRequest writes the realm and a 0
Arguments_encode(args) ==
    CASE args.name \in {"ConnectionClose", "ChannelClose"} ->
            {ToBigEndian(args.fields[1], 2) \o ShortStr_encode(args.fields[2])
                \o ToBigEndian(class_id_of(args.fields[3]), 2)
                \o ToBigEndian(method_id_of(args.fields[4]), 2)}
      [] args.name = "AccessRequest" -> {ShortStr_encode(args.fields[1]) \o <<0>>}
      [] OTHER -> Fields_encode(ArgLayout(args.name), args.fields)

\* the name of the Arguments variant of a method, e.g. ConnectionStart
ArgsName(method) ==
    CASE method.class = "Connection" ->
            (CASE method.name = "Start" -> "ConnectionStart"
               [] method.name = "StartOk" -> "ConnectionStartOk"
               [] method.name = "Secure" -> "ConnectionSecure"
               [] method.name = "SecureOk" -> "ConnectionSecureOk"
               [] method.name = "Tune" -> "ConnectionTune"
               [] method.name = "TuneOk" -> "ConnectionTuneOk"
               [] method.name = "Open" -> "ConnectionOpen"
               [] method.name = "OpenOk" -> "ConnectionOpenOk"
               [] method.name = "Close" -> "ConnectionClose"
               [] method.name = "CloseOk" -> "ConnectionCloseOk")
      [] method.class = "Channel" ->
            (CASE method.name = "Open" -> "ChannelOpen"
               [] method.name = "OpenOk" -> "ChannelOpenOk"
               [] method.name = "Flow" -> "ChannelFlow"
               [] method.name = "FlowOk" -> "ChannelFlowOk"
               [] method.name = "Close" -> "ChannelClose"
               [] method.name = "CloseOk" -> "ChannelCloseOk")
      [] method.class = "Access" ->
            (CASE method.name = "Request" -> "AccessRequest"
               [] method.name = "RequestOk" -> "AccessRequestOk")
      [] method.class = "Exchange" ->
            (CASE method.name = "Declare" -> "ExchangeDeclare"
               [] method.name = "DeclareOk" -> "ExchangeDeclareOk"
               [] method.name = "Bind" -> "ExchangeBind"
               [] method.name = "BindOk" -> "ExchangeBindOk"
               [] method.name = "Unbind" -> "ExchangeUnbind"
               [] method.name = "UnbindOk" -> "ExchangeUnbindOk"
               [] method.name = "Delete" -> "ExchangeDelete"
               [] method.name = "DeleteOk" -> "ExchangeDeleteOk")
      [] method.class = "Queue" ->
            (CASE method.name = "Declare" -> "QueueDeclare"
               [] method.name = "DeclareOk" -> "QueueDeclareOk"
               [] method.name = "Bind" -> "QueueBind"
               [] method.name = "BindOk" -> "QueueBindOk"
               [] method.name = "Unbind" -> "QueueUnbind"
               [] method.name = "UnbindOk" -> "QueueUnbindOk"
               [] method.name = "Purge" -> "QueuePurge"
               [] method.name = "PurgeOk" -> "QueuePurgeOk"
               [] method.name = "Delete" -> "QueueDelete"
               [] method.name = "DeleteOk" -> "QueueDeleteOk")
      [] method.class = "Basic" ->
            (CASE method.name = "Qos" -> "BasicQos"
               [] method.name = "QosOk" -> "BasicQosOk"
               [] method.name = "Consume" -> "BasicConsume"
               [] method.name = "ConsumeOk" -> "BasicConsumeOk"
               [] method.name = "Cancel" -> "BasicCancel"
               [] method.name = "CancelOk" -> "BasicCancelOk"
               [] method.name = "Publish" -> "BasicPublish"
               [] method.name = "Return" -> "BasicReturn"
               [] method.name = "Deliver" -> "BasicDeliver"
               [] method.name = "Get" -> "BasicGet"
               [] method.name = "GetEmpty" -> "BasicGetEmpty"
               [] method.name = "GetOk" -> "BasicGetOk"
               [] method.name = "Reject" -> "BasicReject"
               [] method.name = "RecoverAsync" -> "BasicRecoverAsync"
               [] method.name = "Recover" -> "BasicRecover"
               [] method.name = "RecoverOk" -> "BasicRecoverOk"
               [] method.name = "Ack" -> "BasicAck"
               [] method.name = "Nack" -> "BasicNack")
      [] method.class = "Tx" ->
            (CASE method.name = "Select" -> "TxSelect"
               [] method.name = "SelectOk" -> "TxSelectOk"
               [] method.name = "Commit" -> "TxCommit"
               [] method.name = "CommitOk" -> "TxCommitOk"
               [] method.name = "Rollback" -> "TxRollback"
               [] method.name = "RollbackOk" -> "TxRollbackOk")
      [] method.class = "Confirm" ->
            (CASE method.name = "Select" -> "ConfirmSelect"
               [] method.name = "SelectOk" -> "ConfirmSelectOk")

\* a decode that dispatches on the ids but leaves `method` at Method::default()
MethodPayload_decode_defaultmethod(buffer) ==
    TryPass(u16_decode(buffer), LAMBDA c :
    TryPass(u16_decode(c.rest), LAMBDA m :
    IF Class_from(c.val) = "Unknown" THEN DecodeErrorHere ELSE
    Try(get_method_type(Class_from(c.val), m.val), LAMBDA method :
    Try(Arguments_decode(ArgsName(method.val), m.rest), LAMBDA arguments :
    Ok(arguments.rest,
       [class |-> Class_from(c.val), method |-> [class |-> "Connection", name |-> "Unknown"],
        args |-> arguments.val])))))

MethodPayload_decode(buffer) ==
    TryPass(u16_decode(buffer), LAMBDA c :
    TryPass(u16_decode(c.rest), LAMBDA m :
    IF Class_from(c.val) = "Unknown" THEN DecodeErrorHere ELSE
    Try(get_method_type(Class_from(c.val), m.val), LAMBDA method :
    Try(Arguments_decode(ArgsName(method.val), m.rest), LAMBDA arguments :
    Ok(arguments.rest,
       [class |-> Class_from(c.val), method |-> method.val, args |-> arguments.val])))))

MethodPayload_encode(payload) ==
    {ToBigEndian(class_id_of(payload.class), 2)
        \o ToBigEndian(method_id_of(payload.method), 2) \o a :
        a \in Arguments_encode(payload.args)}

-----------------------------------------------------------------------------
(* Content header properties (src/src/frame/header/*.rs)                    *)

RECURSIVE Pow2(_)
Pow2(n) == IF n = 0 THEN 1 ELSE 2 * Pow2(n - 1)

\* flags & (1 << bit) != 0
HasBit(flags, bit) == (flags \div Pow2(bit)) % 2 = 1

\* the optional fields of BasicProperties in the order encode and decode visit
\* them: <<flag bit, field, type>>
BasicFields ==
    << <<15, "content_type", "ShortStr">>, <<14, "content_encoding", "ShortStr">>,
       <<13, "headers", "FieldTable">>, <<12, "delivery_mode", "u8">>,
       <<11, "priority", "u8">>, <<10, "correlation_id", "ShortStr">>,
       <<9, "reply_to", "ShortStr">>, <<8, "expiration", "ShortStr">>,
       <<7, "message_id", "ShortStr">>, <<6, "timestamp", "u64">>,
       <<5, "basic_type", "ShortStr">>, <<4, "user_id", "ShortStr">>,
       <<3, "app_id", "ShortStr">>, <<2, "cluster_id", "ShortStr">> >>

\* a setter that stores the field and leaves the flags alone
BasicProperties_set_unflagged(properties, bit, name, value) ==
    [flags |-> properties.flags,
     fields |-> {e \in properties.fields : e[1] # name} \cup {<<name, value>>}]

\* set_content_type, ..., set_cluster_id: `self.flags |= X_FLAG; self.x = x`
BasicProperties_set(properties, bit, name, value) ==
    [flags |-> IF HasBit(properties.flags, bit) THEN properties.flags
               ELSE properties.flags + Pow2(bit),
     fields |-> {e \in properties.fields : e[1] # name} \cup {<<name, value>>}]

RECURSIVE BasicLoop(_, _, _, _)
\* one `let buffer = if flags & X_FLAG != 0 { decode; properties.set_x(..) }`
\* step per field; a setter ors the field's bit into properties.flags
BasicLoop(todo, flags, buffer, properties) ==
    IF Len(todo) = 0 THEN Ok(buffer, properties)
    ELSE IF ~HasBit(flags, Head(todo)[1])
    THEN BasicLoop(Tail(todo), flags, buffer, properties)
    ELSE Try(Field_decode(Head(todo)[3], buffer), LAMBDA r :
         BasicLoop(Tail(todo), flags, r.rest,
                   BasicProperties_set(properties, Head(todo)[1], Head(todo)[2], r.val)))

BasicProperties_decode(buffer) ==
    Try(u32_decode(buffer), LAMBDA flags :
    BasicLoop(BasicFields, flags.val, flags.rest, [flags |-> 0, fields |-> {}]))

\* BasicProperties::default(): no flag, every field at its default
BasicProperties_default == [flags |-> 0, fields |-> {}]

\* self.x of a field: the value stored last, or the default of its type
FieldOf(properties, name, type) ==
    IF \E e \in properties.fields : e[1] = name
    THEN (CHOOSE e \in properties.fields : e[1] = name)[2]
    ELSE CASE type = "ShortStr" -> <<>>
           [] type = "FieldTable" -> {}
           [] OTHER -> 0

RECURSIVE BasicFields_encode(_, _)
\* one `if self.flags & X_FLAG != 0 { self.x.encode(buffer) }` step per field
BasicFields_encode(todo, properties) ==
    IF Len(todo) = 0 THEN {<<>>}
    ELSE IF ~HasBit(properties.flags, Head(todo)[1])
    THEN BasicFields_encode(Tail(todo), properties)
    ELSE {h \o t :
            h \in Field_encode(Head(todo)[3], FieldOf(properties, Head(todo)[2], Head(todo)[3])),
            t \in BasicFields_encode(Tail(todo), properties)}

\* BasicProperties::encode: put_u32(self.flags), then the flagged fields
BasicProperties_encode(properties) ==
    {ToBigEndian(properties.flags, 4) \o f : f \in BasicFields_encode(BasicFields, properties)}

\* impl Encode for Property; the classes other than Basic write their flags
Property_encode(properties) ==
    IF "fields" \in DOMAIN properties THEN BasicProperties_encode(properties)
    ELSE {ToBigEndian(properties.flags, 4)}

\* AccessProperties::decode: a u32 flag word, the error wrapped
AccessProperties_decode(buffer) ==
    Try(u32_decode(buffer), LAMBDA flags : Ok(flags.rest, [flags |-> flags.val]))

\* Connection-, Channel-, Exchange-, Queue-, Tx- and ConfirmProperties::decode:
\* a u32 flag word, `Err(e) => return Err(e)`
FlagsProperties_decode(buffer) ==
    TryRaw(u32_decode(buffer), LAMBDA flags : Ok(flags.rest, [flags |-> flags.val]))

\* the `match class_type` dispatch of ContentHeaderPayload::decode
Property_decode(class, buffer) ==
    CASE class = "Basic" -> BasicProperties_decode(buffer)
      [] class = "Access" -> AccessProperties_decode(buffer)
      [] OTHER -> FlagsProperties_decode(buffer)

ContentHeaderPayload_decode(buffer) ==
    Try(u16_decode(buffer), LAMBDA c :
    IF Class_from(c.val) = "Unknown" THEN DecodeErrorHere ELSE
    Try(u16_decode(c.rest), LAMBDA weight :
    Try(u64_decode(weight.rest), LAMBDA body_size :
    Try(Property_decode(Class_from(c.val), body_size.rest), LAMBDA properties :
    Ok(properties.rest,
       [class |-> Class_from(c.val), weight |-> weight.val,
        body_size |-> body_size.val, properties |-> properties.val])))))

ContentHeaderPayload_encode(payload) ==
    {ToBigEndian(class_id_of(payload.class), 2) \o ToBigEndian(payload.weight, 2)
        \o ToBigEndian(payload.body_size, 8) \o p : p \in Property_encode(payload.properties)}

\* HeartbeatPayload::decode accepts any bytes
HeartbeatPayload_decode(buffer) == Ok(buffer, "HeartbeatPayload")

-----------------------------------------------------------------------------
(* Frame (src/src/frame/base.rs)                                            *)

FRAME_END == 206

\* impl From<u8> for FrameType
FrameType_from(type_id) ==
    CASE type_id = 1 -> "METHOD"
      [] type_id = 2 -> "HEADER"
      [] type_id = 3 -> "BODY"
      [] type_id = 4 -> "HEARTBEAT"
      [] OTHER -> "UNKNOWN"

\* Frame::len: (self.length + 8u32) as usize
Frame_len(frame) == frame.length + 8

MkFrame(frame_type, channel, length, payload) ==
    [frame_type |-> frame_type, channel |-> channel, length |-> length, payload |-> payload]

\* `Ok((_, payload)) => Payload::X(payload)`, the error wrapped
Tagged(kind, r) == Try(r, LAMBDA p : Ok(<<>>, [kind |-> kind, v |-> p.val]))

\* the `match frame_type` of Frame::decode over the payload bytes
Payload_decode(frame_type, data) ==
    CASE frame_type = "HEARTBEAT" -> Tagged("Heartbeat", HeartbeatPayload_decode(data))
      [] frame_type = "METHOD" -> Tagged("Method", MethodPayload_decode(data))
      [] frame_type = "HEADER" -> Tagged("ContentHeader", ContentHeaderPayload_decode(data))
      [] frame_type = "BODY" -> Ok(<<>>, [kind |-> "ContentBody", v |-> data])
      [] OTHER -> DecodeErrorHere

\* FrameType::frame_type_id
frame_type_id(frame_type) ==
    CASE frame_type = "METHOD" -> 1
      [] frame_type = "HEADER" -> 2
      [] frame_type = "BODY" -> 3
      [] frame_type = "HEARTBEAT" -> 4
      [] OTHER -> 255

\* impl Encode for Payload; a heartbeat payload writes nothing
Payload_encode(payload) ==
    CASE payload.kind = "Heartbeat" -> {<<>>}
      [] payload.kind = "Method" -> MethodPayload_encode(payload.v)
      [] payload.kind = "ContentHeader" -> ContentHeaderPayload_encode(payload.v)
      [] payload.kind = "ContentBody" -> {payload.v}

\* Frame::encode: the type, the channel, self.length, the payload, FRAME_END
Frame_encode(frame) ==
    {<<frame_type_id(frame.frame_type)>> \o ToBigEndian(frame.channel, 2)
        \o ToBigEndian(frame.length, 4) \o p \o <<FRAME_END>> :
        p \in Payload_encode(frame.payload)}

\* Frame::default(): a METHOD frame of length 0 whose payload is the default
\* MethodPayload: class Unknown, method Connection(Unknown) and a default
\* ConnectionClose as arguments
Frame_default ==
    MkFrame("METHOD", 0, 0,
            [kind |-> "Method",
             v |-> [class |-> "Unknown",
                    method |-> [class |-> "Connection", name |-> "Unknown"],
                    args |-> [name |-> "ConnectionClose",
                              fields |-> <<0, <<>>, "Unknown",
                                           [class |-> "Connection", name |-> "Unknown"]>>]]])

\* a frame decoder that does not compare the terminator
Frame_decode_unterminated(buffer) ==
    TryPass(u8_decode(buffer), LAMBDA t :
    TryPass(u16_decode(t.rest), LAMBDA channel :
    TryPass(u32_decode(channel.rest), LAMBDA length :
    TryPass(take_bytes(length.rest, length.val), LAMBDA data :
    TryPass(u8_decode(data.rest), LAMBDA e :
    TryRaw(Payload_decode(FrameType_from(t.val), data.val), LAMBDA p :
    Ok(e.rest, MkFrame(FrameType_from(t.val), channel.val, length.val, p.val))))))))

Frame_decode(buffer) ==
    TryPass(u8_decode(buffer), LAMBDA t :
    TryPass(u16_decode(t.rest), LAMBDA channel :
    TryPass(u32_decode(channel.rest), LAMBDA length :
    TryPass(take_bytes(length.rest, length.val), LAMBDA data :
    TryPass(u8_decode(data.rest), LAMBDA e :
    IF e.val # FRAME_END THEN DecodeErrorHere ELSE
    TryRaw(Payload_decode(FrameType_from(t.val), data.val), LAMBDA p :
    Ok(e.rest, MkFrame(FrameType_from(t.val), channel.val, length.val, p.val))))))))

-----------------------------------------------------------------------------
(* FrameCodec (src/src/frame/frame_codec.rs).  A decode call yields what it *)
(* returns (ret, item), the buffer it leaves and the flag it leaves.        *)

Outcome(r, i, buffer, flag) == [ret |-> r, item |-> i, src |-> buffer, header_received |-> flag]

NoItem == [tag |-> "None"]

\* an error path that drains the buffer
ErrOutcome_draining(e, buffer, flag) ==
    IF e.kind = "Incomplete" THEN Outcome("None", NoItem, <<>>, flag)
    ELSE Outcome("Err", NoItem, <<>>, flag)

\* `match e { Incomplete => Ok(None), _ => Err(DecodeError(..)) }`
ErrOutcome(e, buffer, flag) ==
    IF e.kind = "Incomplete" THEN Outcome("None", NoItem, buffer, flag)
    ELSE IF e.kind = "Panic" THEN Outcome("Panic", NoItem, buffer, flag)
    ELSE Outcome("Err", NoItem, buffer, flag)

\* the `if !self.header_received` branch
FrameCodec_decode_header(buffer, flag) ==
    Either(ProtocolHeader_decode(buffer),
           LAMBDA h : Outcome("Some", [tag |-> "ProtocolHeader", v |-> h.val],
                              Drop(buffer, PROTOCOL_HEADER_SIZE), flag),
           LAMBDA e : ErrOutcome(e, buffer, flag))

\* the `match Frame::decode(&src[..])` branch
FrameCodec_decode_frame(buffer, flag) ==
    Either(Frame_decode(buffer),
           LAMBDA f : Outcome("Some", [tag |-> "AmqpFrame", v |-> f.val],
                              Drop(buffer, Frame_len(f.val)), flag),
           LAMBDA e : ErrOutcome(e, buffer, flag))

FrameCodec_decode(buffer, flag) ==
    IF ~flag THEN FrameCodec_decode_header(buffer, flag)
    ELSE FrameCodec_decode_frame(buffer, flag)

-----------------------------------------------------------------------------
(* Wire samples: what a peer may send                                       *)

\* 41 4D 51 50 00 00 09 01
HEADER_BYTES == AMQP \o <<0, 0, 9, 1>>

\* Frame::encode of a frame around the payload bytes
FrameBytes(type_id, channel, payload) ==
    <<type_id>> \o ToBigEndian(channel, 2) \o ToBigEndian(Len(payload), 4)
        \o payload \o <<FRAME_END>>

\* 04 00 00 00 00 00 00 CE
HeartbeatBytes == FrameBytes(4, 0, <<>>)

\* a METHOD frame of a method without arguments
MethodBytes(channel, class_id, method_id, args) ==
    FrameBytes(1, channel, ToBigEndian(class_id, 2) \o ToBigEndian(method_id, 2) \o args)

\* Tx.Select on channel 1
TxSelectBytes == MethodBytes(1, 90, 10, <<>>)

\* a BODY frame carrying two bytes
BodyBytes == FrameBytes(3, 1, <<104, 105>>)

\* a heartbeat whose terminator is not 0xCE
BadEndBytes == <<4, 0, 0, 0, 0, 0, 0, 207>>

\* what may precede the frames: the protocol header, a header of another
\* version, something that is not AMQP, or nothing
Preambles ==
    {HEADER_BYTES, AMQP \o <<1, 1, 0, 10>>, <<72, 84, 84, 80, 47, 49, 46, 49>>,
     <<65, 77, 81, 81, 0, 0, 9, 1>>, <<>>}

FramePool == {HeartbeatBytes, TxSelectBytes, BodyBytes, BadEndBytes}

\* the longest run of frames a stream holds
MaxFrames == 2

\* the most bytes one read delivers
MaxChunk == 8

RECURSIVE FrameRuns(_)
\* every concatenation of at most k frames of the pool
FrameRuns(k) ==
    IF k = 0 THEN {<<>>}
    ELSE FrameRuns(k - 1) \cup {r \o f : r \in FrameRuns(k - 1), f \in FramePool}

Streams == {p \o r : p \in Preambles, r \in FrameRuns(MaxFrames)}

-----------------------------------------------------------------------------
(* The codec fed by a byte stream                                           *)

NoRes == [kind |-> "none"]

Init ==
    /\ src = <<>>
    /\ header_received = FALSE
    /\ wire \in Streams
    /\ op = "init"
    /\ ret = "none"
    /\ item = NoItem
    /\ pre = [src |-> <<>>, header_received |-> FALSE]
    /\ emitted = <<>>
    /\ fn = "none"
    /\ arg = <<>>
    /\ res = NoRes

\* the transport appends the next bytes of the stream to the buffer
Feed ==
    \E n \in 1..MaxChunk :
        /\ n <= Len(wire)
        /\ src' = src \o Take(wire, n)
        /\ wire' = Drop(wire, n)
        /\ op' = "feed"
        /\ UNCHANGED <<header_received, ret, item, pre, emitted, fn, arg, res>>

\* one FrameCodec::decode(&mut self, src) call
Decode ==
    /\ ret # "Panic"
    /\ \E o \in {FrameCodec_decode(src, header_received)} :
        /\ src' = o.src
        /\ header_received' = o.header_received
        /\ ret' = o.ret
        /\ item' = o.item
        /\ emitted' = IF o.ret = "Some" THEN Append(emitted, o.item) ELSE emitted
    /\ pre' = [src |-> src, header_received |-> header_received]
    /\ op' = "decode"
    /\ UNCHANGED <<wire, fn, arg, res>>

Next == Feed \/ Decode

Spec == Init /\ [][Next]_vars

-----------------------------------------------------------------------------
(* Properties of the codec fed by a stream (Spec)                           *)

\* C1: once a decode call of a fresh codec has consumed the protocol header
\* and emitted ProtocolHeader, header_received is true and every later call
\* parses a frame, so every item after the first is a frame.
C1_HeaderSetsFlag ==
    emitted # <<>> =>
        /\ header_received
        /\ \A i \in 2..Len(emitted) : emitted[i].tag = "AmqpFrame"

\* C4: after the protocol header has been emitted, a decode call on a buffer
\* that starts with a complete valid frame emits that frame and removes its
\* length + 8 bytes, and a call on a buffer that holds only a partial frame
\* returns Ok(None) and leaves it untouched.
C4_FramesInOrder ==
    [][(emitted # <<>> /\ op' = "decode") =>
        /\ IsOk(Frame_decode(src)) =>
            /\ ret' = "Some"
            /\ item' = [tag |-> "AmqpFrame", v |-> Frame_decode(src).val]
            /\ src' = Drop(src, Frame_decode(src).val.length + 8)
        /\ Frame_decode(src).kind = "Incomplete" => (ret' = "None" /\ src' = src)]_vars

\* C6: once a decode call has returned Err, every later decode call returns
\* Err, whatever bytes arrived in between.
C6_ErrIsFinal ==
    [][(ret = "Err" /\ op' = "decode") => ret' = "Err"]_vars

\* the buffer is a strict prefix (0 to 7 bytes) of the valid protocol header
IsHeaderPrefix(buffer) ==
    Len(buffer) < PROTOCOL_HEADER_SIZE /\ buffer = Take(HEADER_BYTES, Len(buffer))

\* C7: with header_received = false, a decode call on a strict prefix of the
\* valid protocol header returns Ok(None) and consumes nothing.
C7_HeaderPrefixWaits ==
    (op = "decode" /\ ~pre.header_received /\ IsHeaderPrefix(pre.src))
        => (ret = "None" /\ src = pre.src)

\* C8: with header_received = false, a decode call on a buffer of at least
\* four bytes that does not start with AMQP returns Err, not Ok(None), and
\* consumes nothing.
C8_NotAmqpIsFatal ==
    (op = "decode" /\ ~pre.header_received /\ Len(pre.src) >= Len(AMQP)
        /\ Take(pre.src, Len(AMQP)) # AMQP)
        => (ret = "Err" /\ item = NoItem /\ src = pre.src)

\* a call on a buffer that begins HTTP has returned Err
C8_Witness ==
    /\ op = "decode"
    /\ ~pre.header_received
    /\ Len(pre.src) >= Len(AMQP)
    /\ Take(pre.src, Len(AMQP)) = <<72, 84, 84, 80>>
    /\ ret = "Err"
    /\ src = pre.src

-----------------------------------------------------------------------------
(* Frame::decode and FrameCodec::decode as functions of their input         *)
(* (SpecDecode): fn and arg hold the call, res what it returned.            *)

\* Basic.Ack(delivery_tag = 7, multiple)
BasicAckBytes == MethodBytes(1, 60, 80, ToBigEndian(7, 8) \o <<1>>)

\* Queue.DeclareOk("q", 0, 0)
QueueDeclareOkBytes ==
    MethodBytes(2, 50, 11, ShortStr_encode(<<113>>) \o ToBigEndian(0, 4) \o ToBigEndian(0, 4))

\* Queue.Declare("q") whose arguments table holds x = U8(1)
QueueDeclareArgsBytes ==
    MethodBytes(1, 50, 10, ToBigEndian(0, 2) \o ShortStr_encode(<<113>>) \o <<0>>
                            \o ToBigEndian(4, 4) \o <<1, 120, 66, 1>>)

\* a content header of class Basic: weight 0, body size 5, content_type "a"
BasicHeaderBytes ==
    FrameBytes(2, 1, ToBigEndian(60, 2) \o ToBigEndian(0, 2) \o ToBigEndian(5, 8)
                        \o <<0, 0, 128, 0>> \o ShortStr_encode(<<97>>))

\* Queue.Declare("q") with an empty arguments table
QueueDeclareBytes ==
    MethodBytes(1, 50, 10, ToBigEndian(0, 2) \o ShortStr_encode(<<113>>) \o <<0>>
                            \o ToBigEndian(0, 4))

\* Basic.Nack(delivery_tag = 1)
BasicNackBytes == MethodBytes(1, 60, 120, ToBigEndian(1, 8) \o <<0>>)

\* complete valid frames of the four frame types
ValidFrames ==
    {HeartbeatBytes, TxSelectBytes, BodyBytes, BasicAckBytes, QueueDeclareOkBytes,
     QueueDeclareArgsBytes, BasicHeaderBytes, QueueDeclareBytes, BasicNackBytes}

\* framed bytes of an unknown type or with a payload that is no method or header
OddFrames ==
    {FrameBytes(0, 0, <<>>), FrameBytes(5, 1, <<1, 2, 3>>), FrameBytes(255, 65535, <<0>>),
     FrameBytes(1, 0, <<0>>), FrameBytes(2, 0, <<0, 60>>), FrameBytes(1, 0, <<0, 99, 0, 10>>)}

\* the most bytes that follow a frame in an input
MaxPad == 1

Pads == {Take(HeartbeatBytes, n) : n \in 0..MaxPad}

Prefixes(S) == UNION {{Take(f, n) : n \in 0..Len(f)} : f \in S}

\* the frame with its terminator replaced by x
BadEnd(f, x) == Take(f, Len(f) - 1) \o <<x>>

BadEndInputs ==
    {BadEnd(f, x) \o t : f \in ValidFrames \cup OddFrames, x \in Byte \ {FRAME_END}, t \in Pads}

FrameInputs ==
    Prefixes(ValidFrames) \cup {f \o t : f \in ValidFrames \cup OddFrames, t \in Pads}
        \cup BadEndInputs

HeaderInputs == Prefixes(Preambles) \cup {p \o t : p \in Preambles, t \in Pads}

\* the bytes of a well-formed field of each type; the table holds x = U8(1)
FieldSample(type) ==
    CASE type = "u8" \/ BitCount(type) > 0 -> <<0>>
      [] type = "u16" -> <<0, 0>>
      [] type = "u32" -> <<0, 0, 0, 0>>
      [] type = "u64" -> <<0, 0, 0, 0, 0, 0, 0, 0>>
      [] type = "ShortStr" -> <<1, 113>>
      [] type = "LongStr" -> <<0, 0, 0, 1, 120>>
      [] type = "FieldTable" -> <<0, 0, 0, 4, 1, 120, 66, 1>>

RECURSIVE BodySample(_)
BodySample(layout) ==
    IF Len(layout) = 0 THEN <<>> ELSE FieldSample(Head(layout)) \o BodySample(Tail(layout))

\* a valid argument body of the method; a Close names Basic.Publish as the
\* method that caused it
ArgsSample(name) ==
    IF name \in {"ConnectionClose", "ChannelClose"}
    THEN ToBigEndian(200, 2) \o <<0>> \o ToBigEndian(60, 2) \o ToBigEndian(40, 2)
    ELSE BodySample(ArgLayout(name))

Classes == {"Connection", "Channel", "Access", "Exchange", "Queue", "Basic", "Confirm", "Tx"}

\* the methods of the registry
Registry == UNION {{[class |-> c, name |-> e[1]] : e \in MethodIds(c)} : c \in Classes}

\* the METHOD frame that carries the method with a valid argument body
RegistryFrame(method) ==
    MethodBytes(1, class_id_of(method.class), method_id_of(method), ArgsSample(ArgsName(method)))

\* the largest method id looked up
MaxMethodId == 130

\* class ids and method ids around the registered ones
ProbeClassIds == {0, 9, 10, 20, 30, 40, 41, 50, 60, 70, 85, 90, 91, 65535}

ProbeMethodIds == {0, 10, 11, 41, 51, 52, 120, 65535}

\* a METHOD frame of the pair without argument bytes
ProbeMethod(class_id, id) == MethodBytes(0, class_id, id, <<>>)

\* a HEADER frame of the class: weight 0, body size 0, no property flags
ProbeHeader(class_id) ==
    FrameBytes(2, 1, ToBigEndian(class_id, 2) \o ToBigEndian(0, 2) \o ToBigEndian(0, 8)
                        \o ToBigEndian(0, 4))

Probes ==
    {ProbeMethod(c, m) : c \in ProbeClassIds, m \in ProbeMethodIds}
        \cup {ProbeHeader(c) : c \in ProbeClassIds}

\* complete frames whose payload holds bytes after the value it encodes:
\* Tx.Select and one byte, a heartbeat of two bytes, a Basic header and one
\* byte, Basic.Ack and one byte
TrailingFrames ==
    {MethodBytes(1, 90, 10, <<0>>), FrameBytes(4, 0, <<1, 2>>),
     FrameBytes(2, 1, ToBigEndian(60, 2) \o ToBigEndian(0, 2) \o ToBigEndian(5, 8)
                        \o <<0, 0, 128, 0>> \o ShortStr_encode(<<97>>) \o <<9>>),
     MethodBytes(1, 60, 80, ToBigEndian(7, 8) \o <<1, 0>>)}

\* the buffer of the call
BufferOf == IF fn = "FrameCodec::decode" THEN arg[2] ELSE arg

\* METHOD, channel 1, length 4, class 10, method 10, no argument bytes, frame end
BareStart == <<1, 0, 1, 0, 0, 0, 4, 0, 10, 0, 10, 206>>

\* the payload of a complete frame
FramePayload(frame) == SubSeq(frame, 8, Len(frame) - 1)

\* complete frames whose payload is cut short: every prefix of the payload of
\* every method of the registry and of the header of every class, framed
\* with the length of the prefix
ShortFrames ==
    UNION {{FrameBytes(f[1], 1, p) : p \in Prefixes({FramePayload(f)})} :
            f \in {RegistryFrame(m) : m \in Registry}
                    \cup {ProbeHeader(class_id_of(c)) : c \in Classes}
                    \cup {BasicHeaderBytes}}

\* complete frames that carry a table in which a field name has the length 0:
\* Queue.Declare and a Basic header with the headers property
ZeroNameFrames ==
    {MethodBytes(1, 50, 10, ToBigEndian(0, 2) \o ShortStr_encode(<<113>>) \o <<0>>
                                \o <<0, 0, 0, 3, 0, 66, 1>>),
     FrameBytes(2, 1, ToBigEndian(60, 2) \o ToBigEndian(0, 2) \o ToBigEndian(0, 8)
                        \o <<0, 0, 32, 0>> \o <<0, 0, 0, 3, 0, 66, 1>>)}

InitDecode ==
    /\ src = <<>>
    /\ header_received = FALSE
    /\ wire = <<>>
    /\ ret = "none"
    /\ item = NoItem
    /\ pre = [src |-> <<>>, header_received |-> FALSE]
    /\ emitted = <<>>
    /\ op = "call"
    /\ res = NoRes
    /\ \/ fn = "Frame::decode" /\ arg \in FrameInputs
       \/ fn = "FrameCodec::decode" /\ arg \in BOOLEAN \X (FrameInputs \cup HeaderInputs)
       \/ fn = "Frame::decode" /\ arg \in {RegistryFrame(m) : m \in Registry}
       \/ fn = "Frame::decode" /\ arg \in Probes
       \/ fn = "Frame::decode" /\ arg \in TrailingFrames
       \/ fn = "FrameCodec::decode" /\ arg \in {TRUE} \X Probes
       \/ fn = "Frame::encode" /\ arg \in ValidFrames \cup OddFrames \cup TrailingFrames
                                            \cup {RegistryFrame(m) : m \in Registry}
       \/ fn = "Frame::decode" /\ arg \in Prefixes({BareStart})
       \/ fn = "FrameCodec::decode" /\ arg \in {TRUE} \X Prefixes({BareStart})
       \/ fn = "Frame::decode" /\ arg \in ShortFrames \cup ZeroNameFrames
       \/ fn = "FrameCodec::decode" /\ arg \in {TRUE} \X (ShortFrames \cup ZeroNameFrames)
       \/ fn = "Frame::default" /\ arg = <<>>
       \/ fn = "get_method_type" /\ arg \in (Classes \cup {"Unknown"}) \X (0..MaxMethodId)

\* Frame::decode(buffer)
ApplyFrameDecode ==
    /\ op = "call"
    /\ fn = "Frame::decode"
    /\ res' = Frame_decode(arg)
    /\ op' = "return"
    /\ UNCHANGED <<src, header_received, wire, ret, item, pre, emitted, fn, arg>>

\* FrameCodec { header_received: arg[1] }.decode(arg[2])
ApplyCodecDecode ==
    /\ op = "call"
    /\ fn = "FrameCodec::decode"
    /\ res' = FrameCodec_decode(arg[2], arg[1])
    /\ op' = "return"
    /\ UNCHANGED <<src, header_received, wire, ret, item, pre, emitted, fn, arg>>

\* get_method_type(class, method_id)
ApplyGetMethodType ==
    /\ op = "call"
    /\ fn = "get_method_type"
    /\ res' = get_method_type(arg[1], arg[2])
    /\ op' = "return"
    /\ UNCHANGED <<src, header_received, wire, ret, item, pre, emitted, fn, arg>>

\* frame.encode(&mut buffer) of the frame Frame::decode(arg) returns
ApplyFrameEncode ==
    /\ op = "call"
    /\ fn = "Frame::encode"
    /\ \E r \in {Frame_decode(arg)} :
            IF IsOk(r)
            THEN \E b \in Frame_encode(r.val) :
                    res' = [kind |-> "Encoded", frame |-> r.val, bytes |-> b]
            ELSE res' = [kind |-> "NoFrame"]
    /\ op' = "return"
    /\ UNCHANGED <<src, header_received, wire, ret, item, pre, emitted, fn, arg>>

\* Frame::default().encode(&mut buffer)
ApplyDefaultEncode ==
    /\ op = "call"
    /\ fn = "Frame::default"
    /\ \E b \in Frame_encode(Frame_default) :
            res' = [kind |-> "Encoded", frame |-> Frame_default, bytes |-> b]
    /\ op' = "return"
    /\ UNCHANGED <<src, header_received, wire, ret, item, pre, emitted, fn, arg>>

NextDecode ==
    \/ ApplyFrameDecode
    \/ ApplyCodecDecode
    \/ ApplyGetMethodType
    \/ ApplyFrameEncode
    \/ ApplyDefaultEncode

SpecDecode == InitDecode /\ [][NextDecode]_vars

\* buffer is a strict prefix of a complete valid frame
IsFramePrefix(buffer) ==
    \E f \in ValidFrames : Len(buffer) < Len(f) /\ buffer = Take(f, Len(buffer))

\* C2: Frame::decode of a strict prefix of a complete valid frame returns
\* Incomplete (the codec returns Ok(None)); Frame::decode of the frame returns
\* the frame and the codec consumes exactly its length + 8 bytes.
C2_PrefixSafety ==
    op = "return" =>
        /\ (fn = "Frame::decode" /\ IsFramePrefix(arg)) => res.kind = "Incomplete"
        /\ (fn = "Frame::decode" /\ arg \in ValidFrames) =>
                (IsOk(res) /\ res.rest = <<>> /\ res.val.length + 8 = Len(arg))
        /\ (fn = "FrameCodec::decode" /\ arg[1] /\ IsFramePrefix(arg[2])) =>
                (res.ret = "None" /\ res.src = arg[2])
        /\ (fn = "FrameCodec::decode" /\ arg[1] /\ arg[2] \in ValidFrames) =>
                (res.ret = "Some" /\ res.item.tag = "AmqpFrame" /\ res.src = <<>>)

\* C3: a FrameCodec::decode call that returns Ok(None) or Err leaves the
\* buffer and header_received as they were; only a call that returns
\* Some(item) removes bytes.
C3_NothingConsumedUnlessSome ==
    (op = "return" /\ fn = "FrameCodec::decode") =>
        /\ res.ret \in {"None", "Err"} =>
                (res.src = arg[2] /\ res.header_received = arg[1])
        /\ res.src # arg[2] => res.ret = "Some"

\* a call on a partial frame has returned Ok(None) with the buffer untouched
C3_Witness ==
    /\ op = "return"
    /\ fn = "FrameCodec::decode"
    /\ arg[2] = Take(TxSelectBytes, 9)
    /\ res.ret = "None"
    /\ res.src = arg[2]

\* buffer holds a 7-byte frame header, `length` payload bytes and a
\* following byte that is not 0xCE
HasBadEnd(buffer) ==
    /\ Len(buffer) >= 7
    /\ Len(buffer) >= 8 + BigEndian(SubSeq(buffer, 4, 7))
    /\ buffer[8 + BigEndian(SubSeq(buffer, 4, 7))] # FRAME_END

\* C9: on a buffer whose frame is followed by a byte other than 0xCE,
\* Frame::decode returns a fatal error whatever the type and the payload are,
\* and FrameCodec::decode returns Err, emits nothing and consumes nothing.
C9_BadTerminatorIsFatal ==
    (op = "return" /\ HasBadEnd(BufferOf)) =>
        /\ fn = "Frame::decode" => IsFatal(res)
        /\ fn = "FrameCodec::decode" =>
                (res.ret = "Err" /\ res.item = NoItem /\ res.src = arg[2])

\* Frame::decode has rejected a method frame that ends in 0xCF
C9_Witness ==
    /\ op = "return"
    /\ fn = "Frame::decode"
    /\ arg = BadEnd(TxSelectBytes, 207)
    /\ IsFatal(res)

-----------------------------------------------------------------------------
(* The value codecs as functions of their input (SpecValue)                 *)

\* payloads of the scalar kinds: the ends of each range that fit the model's
\* integers, floats as bit patterns, strings as UTF-8 bytes
Scalars ==
    {FV("Boolean", b) : b \in BOOLEAN}
        \cup {FV("I8", v) : v \in {-128, -1, 0, 127}}
        \cup {FV("U8", v) : v \in {0, 255}}
        \cup {FV("I16", v) : v \in {-32768, 32767}}
        \cup {FV("U16", v) : v \in {0, 65535}}
        \cup {FV("I32", v) : v \in {-2147483647, -1, 2147483647}}
        \cup {FV("U32", v) : v \in {0, 2147483647}}
        \cup {FV("I64", v) : v \in {-2147483647, -1, 2147483647}}
        \cup {FV("U64", v) : v \in {0, 2147483647}}
        \cup {FV("F32", v) : v \in {0, 1065353216, 2143289344}}
        \cup {FV("F64", v) : v \in {0, 7}}
        \cup {FV("Timestamp", v) : v \in {0, 1000}}
        \cup {FV("Decimal", [scale |-> 2, value |-> 300])}
        \cup {FV("LongStr", v) : v \in {<<>>, <<104, 105>>, <<195, 169>>}}
        \cup {FV("BytesArray", v) : v \in {<<>>, <<104, 105>>}}
        \cup {FV("Void", 0)}

\* the values containers are filled with at the innermost level
Leaves == {FV("U8", 1), FV("LongStr", <<104, 105>>), FV("Void", 0)}

\* the field names of the sample tables: "a" and "b"
Names == {<<97>>, <<98>>}

\* the most items an array holds
MaxItems == 2

\* the deepest nesting of containers
MaxDepth == 1

\* the arrays of at most MaxItems of the given items
Arrays(items) == UNION {[1..n -> items] : n \in 0..MaxItems}

\* the tables that map some of the names to the given items
Tables(items) == UNION {{{<<n, f[n]>> : n \in S} : f \in [S -> items]} : S \in SUBSET Names}

RECURSIVE Items(_)
\* the values nested at most d containers deep
Items(d) ==
    IF d = 0 THEN Leaves
    ELSE Leaves \cup {FV("FieldArray", a) : a \in Arrays(Items(d - 1))}
                \cup {FV("FieldTable", t) : t \in Tables(Items(d - 1))}

Values == Scalars \cup Items(MaxDepth)

\* complete encodings: <<decoder, variant, bytes>>, the variant being the
\* method or the class of an argument or property decoder
Samples ==
    {<<"ShortStr::decode", "-", ShortStr_encode(v)>> : v \in {<<>>, <<104, 105>>}}
        \cup {<<"LongStr::decode", "-", LongStr_encode(v)>> : v \in {<<>>, <<104, 105>>}}
        \cup {<<"Decimal::decode", "-", Decimal_encode([scale |-> 2, value |-> 300])>>}
        \cup {<<"FieldName::decode", "-", FieldName_encode(v)>> : v \in {<<97>>, <<36, 120>>}}
        \cup {<<"FieldValue::decode", "-", b>> : b \in UNION {FieldValue_encode(v) : v \in Values}}
        \cup {<<"FieldArray::decode", "-", b>> :
                b \in UNION {FieldArray_encode(a) : a \in Arrays(Leaves)}}
        \cup {<<"FieldTable::decode", "-", b>> :
                b \in UNION {FieldTable_encode(t) : t \in Tables(Leaves)}}
        \cup {<<"Arguments::decode", "ConnectionTune",
                ToBigEndian(0, 2) \o ToBigEndian(131072, 4) \o ToBigEndian(60, 2)>>,
              <<"Arguments::decode", "BasicAck", ToBigEndian(7, 8) \o <<1>> >>,
              <<"Arguments::decode", "QueueDeclare",
                ToBigEndian(0, 2) \o ShortStr_encode(<<113>>) \o <<0>>
                    \o ToBigEndian(4, 4) \o <<1, 120, 66, 1>> >>,
              <<"Arguments::decode", "QueueDeclare",
                ToBigEndian(0, 2) \o ShortStr_encode(<<113>>) \o <<0>> \o ToBigEndian(0, 4)>>,
              <<"Arguments::decode", "ChannelClose",
                ToBigEndian(200, 2) \o ShortStr_encode(<<111, 107>>)
                    \o ToBigEndian(60, 2) \o ToBigEndian(40, 2)>>,
              <<"Properties::decode", "Basic", <<0, 0, 128, 0>> \o ShortStr_encode(<<97>>)>>,
              <<"Properties::decode", "Access", <<0, 0, 0, 0>> >>,
              <<"Properties::decode", "Connection", <<0, 0, 0, 0>> >>}

\* the decoder a call names
Decoder(f, variant, buffer) ==
    CASE f = "ShortStr::decode" -> ShortStr_decode(buffer)
      [] f = "LongStr::decode" -> LongStr_decode(buffer)
      [] f = "Decimal::decode" -> Decimal_decode(buffer)
      [] f = "FieldName::decode" -> FieldName_decode(buffer)
      [] f = "FieldValue::decode" -> FieldValue_decode(buffer)
      [] f = "FieldArray::decode" -> FieldArray_decode(buffer)
      [] f = "FieldTable::decode" -> FieldTable_decode(buffer)
      [] f = "Arguments::decode" -> Arguments_decode(variant, buffer)
      [] f = "Properties::decode" -> Property_decode(variant, buffer)

\* the deepest nesting of the containers that are encoded
MaxNest == 8

RECURSIVE Nested(_)
\* a value nested d containers deep, arrays and tables in turn
Nested(d) ==
    IF d = 0 THEN FV("LongStr", <<104, 105>>)
    ELSE IF d % 2 = 1 THEN FV("FieldArray", <<Nested(d - 1), FV("U8", 1)>>)
    ELSE FV("FieldTable", {<<<<97>>, Nested(d - 1)>>, <<<<98>>, FV("Void", 0)>>})

NestedArrays ==
    Arrays(Leaves) \cup {PayloadOf(Nested(d)) : d \in {n \in 1..MaxNest : n % 2 = 1}}

NestedTables ==
    Tables(Leaves) \cup {PayloadOf(Nested(d)) : d \in {n \in 1..MaxNest : n % 2 = 0}}

\* what the buffer holds before an encode call
Dirty == {<<>>, <<7>>, <<0, 0, 0, 9, 255>>}

\* the methods whose arguments hold booleans packed in a flags byte
FlagMethods ==
    {"ConnectionOpen", "ChannelFlow", "ChannelFlowOk", "ExchangeDeclare", "ExchangeDelete",
     "ExchangeBind", "ExchangeUnbind", "QueueDeclare", "QueueBind", "QueuePurge",
     "QueueDelete", "BasicQos", "BasicConsume", "BasicCancel", "BasicPublish",
     "BasicDeliver", "BasicGet", "BasicGetOk", "BasicAck", "BasicReject",
     "BasicRecoverAsync", "BasicRecover", "BasicNack", "ConfirmSelect"}

\* the place of the flags byte among the fields of the method
FlagIndex(name) == CHOOSE k \in 1..Len(ArgLayout(name)) : BitCount(ArgLayout(name)[k]) > 0

\* the bytes that come before the flags byte in FlagBody
FlagOffset(name) == Len(BodySample(SubSeq(ArgLayout(name), 1, FlagIndex(name) - 1)))

\* an argument body of the method whose flags byte is b
FlagBody(name, b) ==
    BodySample(SubSeq(ArgLayout(name), 1, FlagIndex(name) - 1)) \o <<b>>
        \o BodySample(SubSeq(ArgLayout(name), FlagIndex(name) + 1, Len(ArgLayout(name))))

\* the value of a field of each type in an argument struct
ValueSample(type) ==
    CASE type = "ShortStr" -> <<113>>
      [] type = "LongStr" -> <<120>>
      [] type = "FieldTable" -> {<<<<120>>, FV("U8", 1)>>}
      [] OTHER -> 0

\* the argument struct of the method whose booleans are bits
FlagArgs(name, bits) ==
    [name |-> name,
     fields |-> [k \in 1..Len(ArgLayout(name)) |->
                    IF k = FlagIndex(name) THEN bits ELSE ValueSample(ArgLayout(name)[k])]]

\* the longest byte string handed to with_bytes: one byte past the ShortStr limit
MaxStr == 256

Fill(b, n) == [i \in 1..n |-> b]

\* byte strings of one repeated byte: ASCII, a byte that is never valid UTF-8,
\* a two-byte lead without its continuation, and a valid two-byte character
StrInputs ==
    {Fill(b, n) : b \in {97, 255, 195}, n \in 0..MaxStr}
        \cup {Fill(97, n) \o <<195, 169>> : n \in 0..(MaxStr - 2)}

\* encodings whose length prefix is at or above the cap of the type, with none,
\* a part, all and more than all of the declared body bytes behind it
OverCapLongStr ==
    {ToBigEndian(MAX_LONG_STR_LEN + 1, 4) \o Fill(97, n) :
        n \in {0, 3, MAX_LONG_STR_LEN, MAX_LONG_STR_LEN + 1, MAX_LONG_STR_LEN + 2}}
        \cup {Take(ToBigEndian(MAX_LONG_STR_LEN + 1, 4), n) : n \in 0..3}

OverCapFieldName ==
    UNION {{<<l>> \o Fill(b, n) : b \in {97, 49}, n \in {0, 1, l - 1, l, l + 1}} :
            l \in {MAX_FIELD_NAME_LEN, MAX_FIELD_NAME_LEN + 1, 200, U8_MAX}}

\* the longest name handed to FieldName::with_bytes: past MAX_FIELD_NAME_LEN
MaxName == 130

\* names: every first byte alone and before a letter, letters of every length,
\* a letter before bytes that are never valid UTF-8, and the empty name
NameInputs ==
    {<<b>> \o Fill(97, n) : b \in Byte, n \in {0, 1}}
        \cup {Fill(b, n) : b \in {97, 49}, n \in 0..MaxName}
        \cup {<<97>> \o Fill(255, n) : n \in 0..(MaxName - 1)}

\* the Close values Default and the public setters build: any reply code and
\* text with any class and any method, the Unknown variants included
CloseValues ==
    {[name |-> n, fields |-> <<code, text, class, method>>] :
        n \in {"ConnectionClose", "ChannelClose"},
        code \in {0, 320},
        text \in {<<>>, <<111, 107>>},
        class \in Classes \cup {"Unknown"},
        method \in Registry \cup {[class |-> c, name |-> "Unknown"] : c \in Classes}}

\* ConnectionClose::default() and ChannelClose::default()
Close_default(name) ==
    [name |-> name,
     fields |-> <<0, <<>>, "Unknown", [class |-> "Connection", name |-> "Unknown"]>>]

\* the wire form of a Close that no method caused: class_id 0 and method_id 0
ZeroClose ==
    ToBigEndian(200, 2) \o ShortStr_encode(<<111, 107>>) \o ToBigEndian(0, 2) \o ToBigEndian(0, 2)

\* AccessRequest values: a realm and the five booleans
AccessRequests ==
    {[name |-> "AccessRequest", fields |-> <<realm>> \o bits] :
        realm \in {<<>>, <<47, 100>>}, bits \in [1..5 -> BOOLEAN]}

\* AccessRequest on the wire: a realm, every value of the filler byte, and
\* nothing or one more byte behind it
AccessWires ==
    {ShortStr_encode(realm) \o <<filler>> \o tail :
        realm \in {<<>>, <<47, 100>>}, filler \in Byte, tail \in {<<>>, <<7>>}}

\* the values that end a container whose declared length is cut
LastValues == Leaves \cup {FV("FieldArray", <<FV("U8", 1)>>)}

\* arrays and tables on the wire whose declared length ends inside the last
\* entry, all the bytes of that entry being in the buffer
CutArrays ==
    UNION {UNION {{ToBigEndian(Len(ea) - 4 + Len(ev) - j, 4) \o Drop(ea, 4) \o ev :
                        j \in 1..(Len(ev) - 1)} :
                    ea \in FieldArray_encode(a), ev \in FieldValue_encode(v)} :
            a \in Arrays(Leaves), v \in LastValues}

CutTables ==
    UNION {UNION {{ToBigEndian(Len(et) - 4 + Len(n) + 1 + Len(ev) - j, 4)
                            \o Drop(et, 4) \o FieldName_encode(n) \o ev :
                        j \in 1..(Len(n) + Len(ev))} :
                    et \in FieldTable_encode(t), ev \in FieldValue_encode(v)} :
            t \in Tables(Leaves), v \in LastValues, n \in {<<99>>, <<36, 120>>}}

\* whole arrays and tables on the wire with bytes of an outer buffer behind them
TailedContainers(f) ==
    {e \o tail : e \in (IF f = "FieldArray::decode"
                         THEN UNION {FieldArray_encode(a) : a \in Arrays(Leaves)}
                         ELSE UNION {FieldTable_encode(t) : t \in Tables(Leaves)}),
                 tail \in {<<1>>, <<66, 1>>, <<0, 0, 0, 0>>}}

\* tables on the wire in which a field name has the length byte 0
ZeroNameTables ==
    {<<0, 0, 0, 1, 0>>, <<0, 0, 0, 3, 0, 66, 1>>, <<0, 0, 0, 7, 1, 97, 66, 1, 0, 66, 1>>}

InitValue ==
    /\ src = <<>>
    /\ header_received = FALSE
    /\ wire = <<>>
    /\ ret = "none"
    /\ item = NoItem
    /\ pre = [src |-> <<>>, header_received |-> FALSE]
    /\ emitted = <<>>
    /\ op = "call"
    /\ res = NoRes
    /\ \/ \E s \in Samples : fn = s[1] /\ arg \in {<<s[2], b>> : b \in Prefixes({s[3]})}
       \/ fn = "FieldValue::roundtrip" /\ arg \in Values
       \/ fn = "Arguments::decode"
            /\ arg \in {<<name, FlagBody(name, b)>> : name \in FlagMethods, b \in Byte}
       \/ fn = "Arguments::encode"
            /\ \E name \in FlagMethods :
                    arg \in {FlagArgs(name, bits) :
                                bits \in [1..BitCount(ArgLayout(name)[FlagIndex(name)]) -> BOOLEAN]}
       \/ fn = "FieldArray::encode" /\ arg \in Dirty \X NestedArrays
       \/ fn = "FieldTable::encode" /\ arg \in Dirty \X NestedTables
       \/ fn \in {"ShortStr::with_bytes", "LongStr::with_bytes"} /\ arg \in StrInputs
       \/ fn = "LongStr::decode" /\ arg \in {"-"} \X OverCapLongStr
       \/ fn = "FieldName::decode" /\ arg \in {"-"} \X OverCapFieldName
       \/ fn = "FieldName::with_bytes" /\ arg \in NameInputs
       \/ fn = "FieldArray::decode" /\ arg \in {"cut"} \X CutArrays
       \/ fn = "FieldTable::decode" /\ arg \in {"cut"} \X CutTables
       \/ fn \in {"FieldArray::decode", "FieldTable::decode"}
            /\ arg \in {"whole"} \X TailedContainers(fn)
       \/ fn = "Close::roundtrip" /\ arg \in CloseValues
       \/ fn = "AccessRequest::encode" /\ arg \in AccessRequests
       \/ fn = "Arguments::decode" /\ arg \in {"AccessRequest"} \X AccessWires
       \/ fn = "Arguments::decode"
            /\ arg \in {<<n, ZeroClose>> : n \in {"ConnectionClose", "ChannelClose"}}
       \/ fn = "FieldName::decode" /\ arg \in {<<"-", <<Len(n)>> \o n>> : n \in NameInputs}
       \/ fn = "FieldTable::decode" /\ arg \in {"-"} \X ZeroNameTables

\* X::decode(buffer) of a whole or truncated encoding
ApplyDecoder ==
    /\ op = "call"
    /\ fn \in {s[1] : s \in Samples}
    /\ res' = Decoder(fn, arg[1], arg[2])
    /\ op' = "return"
    /\ UNCHANGED <<src, header_received, wire, ret, item, pre, emitted, fn, arg>>

\* v.encode(&mut buffer); FieldValue::decode(&buffer)
ApplyRoundTrip ==
    /\ op = "call"
    /\ fn = "FieldValue::roundtrip"
    /\ \E b \in FieldValue_encode(arg) :
            res' = [bytes |-> b, decoded |-> FieldValue_decode(b)]
    /\ op' = "return"
    /\ UNCHANGED <<src, header_received, wire, ret, item, pre, emitted, fn, arg>>

\* c.encode(&mut buffer) of a container on a buffer that holds arg[1]
ApplyContainerEncode ==
    /\ op = "call"
    /\ fn \in {"FieldArray::encode", "FieldTable::encode"}
    /\ \E b \in (IF fn = "FieldArray::encode" THEN FieldArray_encode_onto(arg[1], arg[2])
                  ELSE FieldTable_encode_onto(arg[1], arg[2])) :
            res' = [bytes |-> b]
    /\ op' = "return"
    /\ UNCHANGED <<src, header_received, wire, ret, item, pre, emitted, fn, arg>>

\* args.encode(&mut buffer) of a method's arguments
ApplyArgumentsEncode ==
    /\ op = "call"
    /\ fn \in {"Arguments::encode", "AccessRequest::encode"}
    /\ \E b \in Arguments_encode(arg) : res' = [bytes |-> b]
    /\ op' = "return"
    /\ UNCHANGED <<src, header_received, wire, ret, item, pre, emitted, fn, arg>>

\* X::with_bytes(bytes), then on success s.encode(&mut buffer) and X::decode(&buffer)
ApplyWithBytes ==
    /\ op = "call"
    /\ fn \in {"ShortStr::with_bytes", "LongStr::with_bytes"}
    /\ \E s \in {IF fn = "ShortStr::with_bytes" THEN ShortStr_with_bytes(arg)
                  ELSE LongStr_with_bytes(arg)} :
       \E b \in {IF ~IsOk(s) THEN <<>>
                  ELSE IF fn = "ShortStr::with_bytes" THEN ShortStr_encode(s.val)
                  ELSE LongStr_encode(s.val)} :
            res' = IF ~IsOk(s) THEN [kind |-> "Rejected", cause |-> s]
                   ELSE [kind |-> "Built", str |-> s.val, bytes |-> b,
                         decoded |-> IF fn = "ShortStr::with_bytes" THEN ShortStr_decode(b)
                                     ELSE LongStr_decode(b)]
    /\ op' = "return"
    /\ UNCHANGED <<src, header_received, wire, ret, item, pre, emitted, fn, arg>>

\* FieldName::with_bytes(bytes)
ApplyFieldNameWithBytes ==
    /\ op = "call"
    /\ fn = "FieldName::with_bytes"
    /\ res' = FieldName_with_bytes(arg)
    /\ op' = "return"
    /\ UNCHANGED <<src, header_received, wire, ret, item, pre, emitted, fn, arg>>

\* c.encode(&mut buffer); XClose::decode(&buffer)
ApplyCloseRoundTrip ==
    /\ op = "call"
    /\ fn = "Close::roundtrip"
    /\ \E b \in Arguments_encode(arg) :
            res' = [bytes |-> b, decoded |-> Arguments_decode(arg.name, b)]
    /\ op' = "return"
    /\ UNCHANGED <<src, header_received, wire, ret, item, pre, emitted, fn, arg>>

NextValue ==
    \/ ApplyDecoder
    \/ ApplyRoundTrip
    \/ ApplyContainerEncode
    \/ ApplyArgumentsEncode
    \/ ApplyWithBytes
    \/ ApplyFieldNameWithBytes
    \/ ApplyCloseRoundTrip

SpecValue == InitValue /\ [][NextValue]_vars

\* the input of the call ends before the value it encodes is complete
IsTruncated ==
    \E s \in Samples :
        /\ s[1] = fn
        /\ s[2] = arg[1]
        /\ Len(arg[2]) < Len(s[3])
        /\ arg[2] = Take(s[3], Len(arg[2]))

\* C5: every composite, method-argument and property decoder returns
\* Incomplete itself on an input that ends before the value is complete.
C5_IncompletePassesThrough ==
    (op = "return" /\ fn # "FieldValue::roundtrip" /\ IsTruncated) => res.kind = "Incomplete"

\* C10: FieldValue::decode(encode(v)) returns v, kind and payload, with an
\* empty remainder, and the tag byte written is the one of v's kind and reads
\* back as that kind.
C10_FieldValueRoundTrip ==
    (op = "return" /\ fn = "FieldValue::roundtrip") =>
        /\ IsOk(res.decoded)
        /\ res.decoded.val = arg
        /\ res.decoded.rest = <<>>
        /\ res.bytes[1] = as_u8(KindOf(arg))
        /\ FieldValueKind_from(res.bytes[1]) = KindOf(arg)
        /\ KindOf(arg) = "BytesArray" => res.bytes[1] = 120
        /\ KindOf(arg) = "LongStr" => res.bytes[1] = 83
        /\ KindOf(arg) = "I32" => res.bytes[1] = 73
        /\ KindOf(arg) = "U32" => res.bytes[1] = 105
        /\ KindOf(arg) = "I64" => res.bytes[1] = 108
        /\ KindOf(arg) = "U64" => res.bytes[1] = 76

\* C11: an empty FieldArray and an empty FieldTable encode to 00 00 00 00;
\* decoding a container whose length prefix is 0 returns the empty container
\* and the bytes after the prefix; a Queue.Declare whose arguments table is
\* empty decodes.
C11_EmptyContainers ==
    /\ FieldArray_encode(<<>>) = {<<0, 0, 0, 0>>}
    /\ FieldTable_encode({}) = {<<0, 0, 0, 0>>}
    /\ (op = "return" /\ fn = "FieldArray::decode" /\ arg[2] = <<0, 0, 0, 0>>) =>
            (IsOk(res) /\ res.val = <<>> /\ res.rest = <<>>)
    /\ (op = "return" /\ fn = "FieldTable::decode" /\ arg[2] = <<0, 0, 0, 0>>) =>
            (IsOk(res) /\ res.val = {} /\ res.rest = <<>>)
    /\ (op = "return" /\ fn = "Arguments::decode" /\ arg[1] = "QueueDeclare"
            /\ arg[2] = <<0, 0, 1, 113, 0, 0, 0, 0, 0>>) =>
            (IsOk(res) /\ res.val.fields[4] = {} /\ res.rest = <<>>)

RECURSIVE SizeOf(_), SizeOfItems(_), SizeOfEntries(_)
\* the bytes a value takes on the wire: its tag and its payload, a container
\* with its 4-byte prefix
SizeOf(fv) ==
    CASE KindOf(fv) = "Void" -> 1
      [] KindOf(fv) = "Boolean" -> 2
      [] KindOf(fv) = "Decimal" -> 6
      [] KindOf(fv) \in {"LongStr", "BytesArray"} -> 5 + Len(PayloadOf(fv))
      [] KindOf(fv) = "FieldArray" -> 5 + SizeOfItems(PayloadOf(fv))
      [] KindOf(fv) = "FieldTable" -> 5 + SizeOfEntries(PayloadOf(fv))
      [] OTHER -> 1 + WidthOf(KindOf(fv))

SizeOfItems(arr) == IF Len(arr) = 0 THEN 0 ELSE SizeOf(Head(arr)) + SizeOfItems(Tail(arr))

SizeOfEntries(table) ==
    IF table = {} THEN 0
    ELSE LET e == CHOOSE x \in table : TRUE
         IN 1 + Len(e[1]) + SizeOf(e[2]) + SizeOfEntries(table \ {e})

\* C12: FieldArray::encode and FieldTable::encode leave the bytes the buffer
\* held unchanged and write after them the big-endian count of all the bytes
\* appended after the prefix, which for nested containers is the sum of the
\* items' sizes, each inner container counted with its own prefix and body.
C12_LengthPatchedInPlace ==
    (op = "return" /\ fn \in {"FieldArray::encode", "FieldTable::encode"}) =>
        /\ Len(res.bytes) >= Len(arg[1]) + 4
        /\ Take(res.bytes, Len(arg[1])) = arg[1]
        /\ BigEndian(SubSeq(res.bytes, Len(arg[1]) + 1, Len(arg[1]) + 4))
                = Len(res.bytes) - Len(arg[1]) - 4
        /\ fn = "FieldArray::encode" =>
                Len(res.bytes) - Len(arg[1]) - 4 = SizeOfItems(arg[2])
        /\ fn = "FieldTable::encode" =>
                Len(res.bytes) - Len(arg[1]) - 4 = SizeOfEntries(arg[2])

\* a table nested MaxNest deep has been encoded after five bytes
C12_Witness ==
    /\ op = "return"
    /\ fn = "FieldTable::encode"
    /\ arg = <<<<0, 0, 0, 9, 255>>, PayloadOf(Nested(MaxNest))>>
    /\ SubSeq(res.bytes, 1, 5) = <<0, 0, 0, 9, 255>>
    /\ BigEndian(SubSeq(res.bytes, 6, 9)) = SizeOfEntries(arg[2])

\* C13: for every method of the registry, get_method_type(class, id) returns
\* the method and the method's method_id() is id; the METHOD frame that
\* carries the pair with a valid argument body decodes to the Arguments
\* variant of the method.
C13_RegistryComplete ==
    /\ (op = "return" /\ fn = "get_method_type") =>
            \A m \in Registry :
                (arg = <<m.class, method_id_of(m)>>) =>
                    (IsOk(res) /\ res.val = m /\ method_id_of(res.val) = arg[2])
    /\ (op = "return" /\ fn = "Frame::decode") =>
            \A m \in Registry :
                (arg = RegistryFrame(m)) =>
                    /\ IsOk(res)
                    /\ res.val.payload.kind = "Method"
                    /\ res.val.payload.v.method = m
                    /\ res.val.payload.v.args.name = ArgsName(m)

\* get_method_type(Class::from(class_id), id).is_ok(): the class is known and
\* the `from` of its method enum has an arm for the id
IsRegistered(class_id, id) == \E e \in FromTable(Class_from(class_id)) : e[1] = id

\* C14: a METHOD frame whose class id is unknown, or whose method id is not
\* registered for its class, and a HEADER frame whose class id is unknown
\* decode to a fatal error, never to a frame or to Incomplete; the METHOD
\* frame (40, 51) decodes to Exchange.UnbindOk.
C14_UnknownIdsAreFatal ==
    op = "return" =>
        /\ \A c \in ProbeClassIds, m \in ProbeMethodIds :
                (~IsRegistered(c, m) /\ BufferOf = ProbeMethod(c, m)) =>
                    /\ fn = "Frame::decode" => IsFatal(res)
                    /\ fn = "FrameCodec::decode" => (res.ret = "Err" /\ res.src = arg[2])
        /\ \A c \in ProbeClassIds :
                (Class_from(c) = "Unknown" /\ BufferOf = ProbeHeader(c)) =>
                    /\ fn = "Frame::decode" => IsFatal(res)
                    /\ fn = "FrameCodec::decode" => (res.ret = "Err" /\ res.src = arg[2])
        /\ (fn = "Frame::decode" /\ arg = ProbeMethod(40, 51)) =>
                /\ IsOk(res)
                /\ res.val.payload.kind = "Method"
                /\ res.val.payload.v.method = [class |-> "Exchange", name |-> "UnbindOk"]

\* Frame::decode has rejected the METHOD frame of Exchange 41
C14_Witness ==
    /\ op = "return"
    /\ fn = "Frame::decode"
    /\ arg = ProbeMethod(40, 41)
    /\ IsFatal(res)

\* C15: for Frame::default() and for every frame decode returns, the length
\* field Frame::encode writes equals the number of payload bytes it writes
\* between the 7-byte header and the terminator.
C15_EncodedLengthIsPayloadSize ==
    (op = "return" /\ fn \in {"Frame::encode", "Frame::default"} /\ res.kind = "Encoded") =>
        /\ Len(res.bytes) >= 8
        /\ BigEndian(SubSeq(res.bytes, 4, 7)) = Len(res.bytes) - 8

-----------------------------------------------------------------------------
(* BasicProperties as an object (SpecProps): res holds the value, built by  *)
(* Default or decode and changed by the setters; arg holds what the last    *)
(* encode wrote and what decode made of it.                                  *)

\* the values a setter is called with
ValuesOf(name) ==
    CASE name = "content_type" -> {<<116, 101, 120, 116, 47, 112, 108, 97, 105, 110>>}
      [] name = "headers" -> {{}, {<<<<120>>, FV("U8", 1)>>}}
      [] name = "delivery_mode" -> {0, 2}
      [] name = "priority" -> {9}
      [] name = "timestamp" -> {1000}
      [] OTHER -> {<<97>>}

\* property bytes a peer may send: flag words with bits outside 2..15
WireProps ==
    {<<0, 0, 0, 3>>, <<0, 1, 0, 0>>, <<127, 255, 0, 4, 1, 97>>,
     <<0, 1, 128, 65, 1, 97, 0, 0, 0, 0, 0, 0, 3, 232>>}

InitProps ==
    /\ src = <<>>
    /\ header_received = FALSE
    /\ wire = <<>>
    /\ ret = "none"
    /\ item = NoItem
    /\ pre = [src |-> <<>>, header_received |-> FALSE]
    /\ emitted = <<>>
    /\ fn = "BasicProperties"
    /\ arg = <<>>
    /\ \/ op = "default" /\ res = BasicProperties_default
       \/ op = "decode" /\ res \in {BasicProperties_decode(b).val : b \in WireProps}

\* properties.set_x(value)
SetProperty ==
    /\ \E i \in 1..Len(BasicFields) : \E v \in ValuesOf(BasicFields[i][2]) :
            res' = BasicProperties_set(res, BasicFields[i][1], BasicFields[i][2], v)
    /\ op' = "set"
    /\ arg' = <<>>
    /\ UNCHANGED <<src, header_received, wire, ret, item, pre, emitted, fn>>

\* properties.encode(&mut buffer); BasicProperties::decode(&buffer)
EncodeProperties ==
    /\ op # "encode"
    /\ \E b \in BasicProperties_encode(res) :
            arg' = [bytes |-> b, decoded |-> BasicProperties_decode(b)]
    /\ op' = "encode"
    /\ UNCHANGED <<src, header_received, wire, ret, item, pre, emitted, fn, res>>

NextProps == SetProperty \/ EncodeProperties

SpecProps == InitProps /\ [][NextProps]_vars

\* the field has been set
IsSet(name) == \E e \in res.fields : e[1] = name

RECURSIVE FlagWord(_)
\* the flag word of the fields that have been set
FlagWord(todo) ==
    IF Len(todo) = 0 THEN 0
    ELSE (IF IsSet(Head(todo)[2]) THEN Pow2(Head(todo)[1]) ELSE 0) + FlagWord(Tail(todo))

\* C16: for every subset of the 14 fields set through the setters, encode
\* writes the flag word with exactly the bits of the subset and then the
\* present fields; decode of those bytes yields the same fields with the same
\* values and an empty remainder; content_type = text/plain with timestamp =
\* 1000 starts with 00 00 80 40.
C16_PropertiesRoundTrip ==
    op = "encode" =>
        /\ SubSeq(arg.bytes, 1, 4) = ToBigEndian(FlagWord(BasicFields), 4)
        /\ IsOk(arg.decoded)
        /\ arg.decoded.val = res
        /\ arg.decoded.rest = <<>>
        /\ res.fields = {<<"content_type", <<116, 101, 120, 116, 47, 112, 108, 97, 105, 110>>>>,
                         <<"timestamp", 1000>>} =>
                arg.bytes = <<0, 0, 128, 64, 10, 116, 101, 120, 116, 47, 112, 108, 97, 105, 110,
                              0, 0, 0, 0, 0, 0, 3, 232>>

\* C17: in every BasicProperties value reached by Default, by decode or by
\* setter calls, bit b of flags is set exactly when the field mapped to b has
\* been set, and no bit outside 2..15 is set.
C17_FlagsMatchFields ==
    /\ \A i \in 1..Len(BasicFields) :
            HasBit(res.flags, BasicFields[i][1]) <=> IsSet(BasicFields[i][2])
    /\ res.flags % 4 = 0
    /\ res.flags < 65536

\* delivery_mode alone has been set, to 0, the value it has by default, and
\* its flag is set
C17_Witness ==
    /\ op = "set"
    /\ res.fields = {<<"delivery_mode", 0>>}
    /\ res.flags = 4096

\* C18: encode packs the booleans of a method into one byte, the i-th listed
\* boolean at bit i - 1 and the unused higher bits 0; decode of any flags byte
\* sets each boolean from its own bit alone.  Basic.Consume holds four
\* booleans, Basic.Publish and Basic.Nack two.
C18_BooleansPacked ==
    /\ BitCount(ArgLayout("BasicConsume")[FlagIndex("BasicConsume")]) = 4
    /\ BitCount(ArgLayout("BasicPublish")[FlagIndex("BasicPublish")]) = 2
    /\ BitCount(ArgLayout("BasicNack")[FlagIndex("BasicNack")]) = 2
    /\ (op = "return" /\ fn = "Arguments::encode") =>
            /\ Len(res.bytes) = Len(FlagBody(arg.name, 0))
            /\ \A i \in 1..8 :
                    HasBit(res.bytes[FlagOffset(arg.name) + 1], i - 1)
                        <=> (/\ i <= Len(arg.fields[FlagIndex(arg.name)])
                             /\ arg.fields[FlagIndex(arg.name)][i])
    /\ (op = "return" /\ fn = "Arguments::decode" /\ arg[1] \in FlagMethods
            /\ \E b \in Byte : arg[2] = FlagBody(arg[1], b)) =>
            /\ IsOk(res)
            /\ Len(res.val.fields[FlagIndex(arg[1])])
                    = BitCount(ArgLayout(arg[1])[FlagIndex(arg[1])])
            /\ \A i \in 1..Len(res.val.fields[FlagIndex(arg[1])]) :
                    res.val.fields[FlagIndex(arg[1])][i]
                        <=> HasBit(arg[2][FlagOffset(arg[1]) + 1], i - 1)

\* Basic.Consume has been decoded from the flags byte F5: no_local and
\* exclusive are set, no_ack and no_wait are not
C18_Witness ==
    /\ op = "return"
    /\ fn = "Arguments::decode"
    /\ arg = <<"BasicConsume", FlagBody("BasicConsume", 245)>>
    /\ IsOk(res)
    /\ res.val.fields[4] = <<TRUE, FALSE, TRUE, FALSE>>

\* C19: a complete frame of type HEARTBEAT whose length field is not 0
\* decodes to a fatal error; a heartbeat frame of length 0 decodes to a
\* Heartbeat frame.
C19_HeartbeatIsEmpty ==
    (op = "return" /\ fn = "Frame::decode" /\ Len(arg) >= 8 /\ arg[1] = 4
        /\ Len(arg) = 8 + BigEndian(SubSeq(arg, 4, 7)) /\ arg[Len(arg)] = FRAME_END) =>
        IF BigEndian(SubSeq(arg, 4, 7)) = 0
        THEN IsOk(res) /\ res.val.payload.kind = "Heartbeat"
        ELSE IsFatal(res)

-----------------------------------------------------------------------------
\* C20: every string that with_bytes accepts holds at most 255 body bytes
\* (ShortStr) or 65536 (LongStr), also after invalid UTF-8 has been replaced;
\* the length prefix that encode writes is the number of body bytes written
\* after it, and decoding the encoding gives the string back.
C20_StringsFitTheirPrefix ==
    (op = "return" /\ fn \in {"ShortStr::with_bytes", "LongStr::with_bytes"}
        /\ res.kind = "Built") =>
        \E w \in {IF fn = "ShortStr::with_bytes" THEN 1 ELSE 4} :
            /\ Len(res.str) <= (IF w = 1 THEN U8_MAX ELSE MAX_LONG_STR_LEN)
            /\ BigEndian(Take(res.bytes, w)) = Len(res.bytes) - w
            /\ res.decoded = Ok(<<>>, res.str)

-----------------------------------------------------------------------------
\* C21: LongStr::decode of a length prefix above 65536 and FieldName::decode
\* of a length prefix above 128 return a fatal error, never Incomplete,
\* whether or not the declared body bytes are in the input.
C21_OverCapIsFatal ==
    (op = "return" /\ fn \in {"LongStr::decode", "FieldName::decode"}) =>
        \E w \in {IF fn = "LongStr::decode" THEN 4 ELSE 1} :
            (Len(arg[2]) >= w /\ BigEndian(Take(arg[2], w)) >
                    (IF w = 4 THEN MAX_LONG_STR_LEN ELSE MAX_FIELD_NAME_LEN))
                => IsFatal(res)

\* FieldName::decode has refused a name of 129 declared and present bytes that
\* starts with a letter
C21_Witness ==
    /\ op = "return" /\ fn = "FieldName::decode" /\ IsFatal(res)
    /\ Len(arg[2]) = 1 + MAX_FIELD_NAME_LEN + 1
    /\ arg[2][1] = MAX_FIELD_NAME_LEN + 1 /\ arg[2][2] = 97

-----------------------------------------------------------------------------
\* C22: FieldName::with_bytes, and FieldName::decode of a name that is wholly
\* present, return an error when the first byte of the name is not `$`, `#`
\* or a letter and when the name is longer than 128 bytes, and return every
\* other name of 1 to 128 bytes as it was given.
C22_FieldNameChecked ==
    (op = "return" /\ fn \in {"FieldName::with_bytes", "FieldName::decode"}) =>
        \E name \in {IF fn = "FieldName::with_bytes" THEN arg
                      ELSE IF Len(arg[2]) >= 1 /\ Len(arg[2]) = 1 + arg[2][1]
                           THEN Drop(arg[2], 1) ELSE <<>>} :
            Len(name) >= 1 =>
                IF name[1] \in {36, 35} \cup (97..122) \cup (65..90) /\ Len(name) <= 128
                THEN res = Ok(<<>>, name)
                ELSE IsFatal(res)

-----------------------------------------------------------------------------
\* C23: a Connection.Close or Channel.Close built through Default and the
\* setters, the default value included, decodes from its encoding with the
\* same reply_code, reply_text, class_id and method_id; and a Close whose
\* class_id and method_id on the wire are both 0 decodes successfully.
C23_CloseRoundTrip ==
    /\ (op = "return" /\ fn = "Close::roundtrip") =>
            /\ IsOk(res.decoded)
            /\ res.decoded.rest = <<>>
            /\ res.decoded.val.name = arg.name
            /\ res.decoded.val.fields[1] = arg.fields[1]
            /\ res.decoded.val.fields[2] = arg.fields[2]
            /\ class_id_of(res.decoded.val.fields[3]) = class_id_of(arg.fields[3])
            /\ method_id_of(res.decoded.val.fields[4]) = method_id_of(arg.fields[4])
    /\ (op = "return" /\ fn = "Arguments::decode" /\ arg[2] = ZeroClose) => IsOk(res)

-----------------------------------------------------------------------------
\* C24: AccessRequest::encode writes the realm short string and then exactly
\* one byte 0, whatever the five booleans hold; AccessRequest::decode accepts
\* every value of that filler byte, yields the realm, and returns the
\* remainder that starts after the filler.
C24_AccessRequestFiller ==
    /\ (op = "return" /\ fn = "AccessRequest::encode") =>
            res.bytes = <<Len(arg.fields[1])>> \o arg.fields[1] \o <<0>>
    /\ (op = "return" /\ fn = "Arguments::decode" /\ arg[1] = "AccessRequest"
            /\ Len(arg[2]) >= 1 /\ Len(arg[2]) >= arg[2][1] + 2) =>
            /\ IsOk(res)
            /\ res.val.fields[1] = SubSeq(arg[2], 2, arg[2][1] + 1)
            /\ res.rest = Drop(arg[2], arg[2][1] + 2)

-----------------------------------------------------------------------------
\* C25: FieldArray::decode and FieldTable::decode read their entries from the
\* `length` bytes after the prefix only: a container whose declared length
\* ends inside its last entry gives a fatal error although the bytes of that
\* entry are in the buffer, and on success the remainder starts 4 + length
\* bytes after the start of the container.
C25_EntriesFromSliceOnly ==
    (op = "return" /\ fn \in {"FieldArray::decode", "FieldTable::decode"}) =>
        /\ arg[1] = "cut" => IsFatal(res)
        /\ IsOk(res) => res.rest = Drop(arg[2], 4 + BigEndian(Take(arg[2], 4)))

\* an array whose declared length ends inside its last item, the rest of the
\* item following in the buffer, has been refused
C25_Witness ==
    /\ op = "return" /\ fn = "FieldArray::decode" /\ arg[1] = "cut"
    /\ Len(arg[2]) > 4 + BigEndian(Take(arg[2], 4))
    /\ BigEndian(Take(arg[2], 4)) > 2
    /\ IsFatal(res)

-----------------------------------------------------------------------------
\* C26 as stated: the complete frame 01 00 01 00 00 00 04 00 0A 00 0A CE decodes
\* to a METHOD frame for Connection.Start, and the same bytes without the
\* final CE give Incomplete and leave the buffer untouched.
C26_BareStartDecodes ==
    /\ (op = "return" /\ fn = "Frame::decode" /\ arg = BareStart) =>
            /\ IsOk(res)
            /\ res.val.frame_type = "METHOD"
            /\ res.val.payload.v.method = [class |-> "Connection", name |-> "Start"]
    /\ (op = "return" /\ fn = "Frame::decode" /\ arg = Take(BareStart, 11)) =>
            res = Incomplete
    /\ (op = "return" /\ fn = "FrameCodec::decode" /\ arg = <<TRUE, Take(BareStart, 11)>>) =>
            res.ret = "None" /\ res.src = arg[2]

\* C26 amended: the complete frame 01 00 01 00 00 00 04 00 0A 00 0A CE is
\* refused with a fatal error, its payload holding none of the arguments of
\* Connection.Start, and the codec returns the error; the same bytes without
\* the final CE give Incomplete and leave the buffer untouched.
C26_BareStartIsRefused ==
    /\ (op = "return" /\ fn = "Frame::decode" /\ arg = BareStart) => IsFatal(res)
    /\ (op = "return" /\ fn = "FrameCodec::decode" /\ arg = <<TRUE, BareStart>>) =>
            res.ret = "Err"
    /\ (op = "return" /\ fn = "Frame::decode" /\ arg = Take(BareStart, 11)) =>
            res = Incomplete
    /\ (op = "return" /\ fn = "FrameCodec::decode" /\ arg = <<TRUE, Take(BareStart, 11)>>) =>
            res.ret = "None" /\ res.src = arg[2]

\* Frame::decode has returned on the complete frame
C26_Witness ==
    op = "return" /\ fn = "Frame::decode" /\ arg = BareStart /\ res.kind = "DecodeError"

-----------------------------------------------------------------------------
(* The container decoders step by step: FieldArray::decode and               *)
(* FieldTable::decode as the loop the source writes.  While the loop runs,   *)
(* op = "loop" and res holds the locals of the call: tmp (what is left of    *)
(* the slice), acc (the entries decoded so far) and outer (the buffer        *)
(* behind the slice).                                                        *)

\* the values the step-wise containers hold: leaves and nested containers
LoopItems ==
    Leaves \cup {FV("FieldArray", <<FV("U8", 1)>>),
                 FV("FieldTable", {<<(<<97>>), FV("U8", 1)>>})}

LoopInputs ==
    ({"FieldArray::decode"} \X
        (Prefixes(UNION {FieldArray_encode(a) : a \in Arrays(LoopItems)}) \cup CutArrays))
    \cup ({"FieldTable::decode"} \X
        (Prefixes(UNION {FieldTable_encode(t) : t \in Tables(LoopItems)})
            \cup CutTables \cup ZeroNameTables))
    \cup ({"FieldValue::decode"} \X
        Prefixes(UNION {FieldValue_encode(v) : v \in Scalars \cup LoopItems}))
    \cup ({"Frame::decode"} \X (Prefixes(ValidFrames) \cup BadEndInputs))

InitLoop ==
    /\ src = <<>>
    /\ header_received = FALSE
    /\ wire = <<>>
    /\ ret = "none"
    /\ item = NoItem
    /\ pre = [src |-> <<>>, header_received |-> FALSE]
    /\ emitted = <<>>
    /\ op = "idle"
    /\ res = NoRes
    /\ fn = "none"
    /\ arg = <<>>

\* a caller hands one of the inputs to one of the decoders
CallDecoder ==
    /\ op = "idle"
    /\ \E i \in LoopInputs : fn' = i[1] /\ arg' = i[2]
    /\ op' = "call"
    /\ UNCHANGED <<src, header_received, wire, ret, item, pre, emitted, res>>

\* the length and the slice: u32::decode and take_bytes, before the loop
EnterLoop ==
    /\ op = "call"
    /\ fn \in {"FieldArray::decode", "FieldTable::decode"}
    /\ \E r \in {Try(u32_decode(arg), LAMBDA l :
                  Try(take_bytes(l.rest, l.val), LAMBDA d : Ok(d.rest, d.val)))} :
            IF IsOk(r)
            THEN /\ op' = "loop"
                 /\ res' = [kind |-> "Loop", tmp |-> r.val, outer |-> r.rest,
                            acc |-> IF fn = "FieldArray::decode" THEN <<>> ELSE {}]
            ELSE /\ op' = "return"
                 /\ res' = r
    /\ UNCHANGED <<src, header_received, wire, ret, item, pre, emitted, fn, arg>>

\* one iteration of `loop { ... }`: an item, or a name and a value, is decoded
\* from tmp; the loop returns when tmp is empty afterwards
StepLoop ==
    /\ op = "loop"
    /\ \E r \in {IF fn = "FieldArray::decode"
                  THEN Try(FieldValue_decode(res.tmp), LAMBDA v :
                       Ok(v.rest, Append(res.acc, v.val)))
                  ELSE Try(FieldName_decode(res.tmp), LAMBDA n :
                       Try(FieldValue_decode(n.rest), LAMBDA v :
                       Ok(v.rest, Insert(res.acc, n.val, v.val))))} :
            IF ~IsOk(r) THEN op' = "return" /\ res' = r
            ELSE IF Len(r.rest) = 0 THEN op' = "return" /\ res' = Ok(res.outer, r.val)
            ELSE op' = "loop" /\ res' = [res EXCEPT !.tmp = r.rest, !.acc = r.val]
    /\ UNCHANGED <<src, header_received, wire, ret, item, pre, emitted, fn, arg>>

\* FieldValue::decode(buffer) and Frame::decode(buffer), which hold no loop of
\* their own
CallOnce ==
    /\ op = "call"
    /\ fn \in {"FieldValue::decode", "Frame::decode"}
    /\ res' = IF fn = "FieldValue::decode" THEN FieldValue_decode(arg) ELSE Frame_decode(arg)
    /\ op' = "return"
    /\ UNCHANGED <<src, header_received, wire, ret, item, pre, emitted, fn, arg>>

NextLoop ==
    \/ CallDecoder
    \/ EnterLoop
    \/ StepLoop
    \/ CallOnce

\* a call that has started runs on: the decoders are sequential code
SpecLoop == InitLoop /\ [][NextLoop]_vars /\ WF_vars(NextLoop)

\* the step-wise decoders return what FieldArray_decode and FieldTable_decode
\* compute
LoopAgrees ==
    (op = "return" /\ fn \in {"FieldArray::decode", "FieldTable::decode"}) =>
        res = Decoder(fn, "-", arg)

\* C27: Frame::decode, FieldValue::decode, FieldArray::decode and
\* FieldTable::decode return on every input, with Ok, an error or Incomplete;
\* every iteration of a container loop leaves a shorter slice than it found.
C27_DecodersTerminate ==
    /\ <>(op = "return")
    /\ [][(op = "loop" /\ op' = "loop") => Len(res'.tmp) < Len(res.tmp)]_vars
    /\ [](op = "return" => res.kind \in {"Ok", "SyntaxError", "DecodeError", "Incomplete"})

-----------------------------------------------------------------------------
\* C28: when the buffer holds a complete frame (7 header bytes, `length`
\* payload bytes and a terminator byte), Frame::decode returns Ok or a fatal
\* error, never Incomplete, and the codec returns a frame or an error instead
\* of waiting for more bytes.
C28_CompleteFrameIsSettled ==
    /\ (op = "return" /\ fn = "Frame::decode" /\ Len(arg) >= 8
            /\ Len(arg) >= 8 + BigEndian(SubSeq(arg, 4, 7))) =>
            (IsOk(res) \/ IsFatal(res))
    /\ (op = "return" /\ fn = "FrameCodec::decode" /\ arg[1] /\ Len(arg[2]) >= 8
            /\ Len(arg[2]) >= 8 + BigEndian(SubSeq(arg[2], 4, 7))) =>
            res.ret \in {"Some", "Err"}

\* C29: FieldName::with_bytes returns Ok or an error for every byte slice, the
\* empty one included, and FieldName::decode and FieldTable::decode return Ok or
\* an error for a field name whose length byte is 0: none of them panics on
\* bytes[0] of an empty slice.
C29_EmptyNameIsAnswered ==
    (op = "return"
        /\ fn \in {"FieldName::with_bytes", "FieldName::decode", "FieldTable::decode"}) =>
        res.kind # "Panic"

\* C30: in every MethodPayload that MethodPayload::decode returns, `class`, the
\* class of `method` and the class and method the `args` variant is named after
\* agree with each other and with the class id and method id read from the
\* wire, and neither `class` nor `method` is an Unknown variant.
C30_PayloadAgrees ==
    (op = "return" /\ fn = "Frame::decode" /\ IsOk(res)
            /\ res.val.payload.kind = "Method") =>
        /\ res.val.payload.v.class # "Unknown"
        /\ res.val.payload.v.method.name # "Unknown"
        /\ res.val.payload.v.method.class = res.val.payload.v.class
        /\ class_id_of(res.val.payload.v.class) = BigEndian(SubSeq(arg, 8, 9))
        /\ method_id_of(res.val.payload.v.method) = BigEndian(SubSeq(arg, 10, 11))
        /\ res.val.payload.v.args.name
                = res.val.payload.v.class \o res.val.payload.v.method.name

\* Queue.Unbind, whose id 50 sits out of numeric order in the tables, is
\* decoded from its frame into a payload that carries the QueueUnbind variant
C30_Witness ==
    /\ op = "return"
    /\ fn = "Frame::decode"
    /\ arg = RegistryFrame([class |-> "Queue", name |-> "Unbind"])
    /\ IsOk(res)
    /\ res.val.payload.kind = "Method"
    /\ res.val.payload.v.args.name = "QueueUnbind"
    /\ res.val.payload.v.method = [class |-> "Queue", name |-> "Unbind"]

=============================================================================
